---- MODULE Spec2Model ----
(***************************************************************************)
(* Flash-attention forward kernels (csrc/flash_attn/src/flash_fwd_kernel.h) *)
(* as state machines: compute_attn_1rowblock (dense),                      *)
(* compute_attn_1rowblock_splitkv (split-K, KV-cache append, paged KV) and *)
(* combine_attn_seqk_parallel (reduction of the split partial results).    *)
(*                                                                         *)
(* A launch draws its parameters in Init.  Thread blocks of a grid are     *)
(* started one at a time in any order; a block runs through its phases     *)
(* (start / prologue / masking loop / non-masking loop / epilogue).        *)
(* Tile sizes are scaled down (kBlockM, kBlockN in {2, 4}), the head       *)
(* dimension is one element, sequence lengths are counted in rows.         *)
(* Floating point is exact rational arithmetic with -inf, +inf and NaN;    *)
(* a logarithm-domain quantity x (a logit, a row max, an LSE) is kept as   *)
(* the rational 2^x, so -inf is kept as 0.                                 *)
(***************************************************************************)
EXTENDS Integers, Sequences, FiniteSets, Bags, TLC

VARIABLES
    params,      \* the Params structure of the launch (template flags included)
    phase,       \* the kernel whose grid is running: "dense", "splitkv", "combine"
    pending,     \* blocks of the running grid that have not started yet
    cur,         \* locals of the block that is running (or has just finished)
    gO,          \* params.o_ptr, one entry per (batch, head, row)
    gLSE,        \* params.softmax_lse_ptr, flat (B, H, seqlen_q)
    gOaccum,     \* params.oaccum_ptr, flat (num_splits, B, H, seqlen_q, d_rounded)
    gLSEaccum,   \* params.softmax_lseaccum_ptr, flat (num_splits, B, H, seqlen_q)
    gKV,         \* the K/V cache: for each (KV head, row address), the Knew/Vnew row
                 \* an append wrote there, -1 for the contents before the launch
    rng_state,   \* params.rng_state
    ref,         \* O and LSE of the dense launch, kept when the same problem is
                 \* then run through the split kernel
    ranges,      \* <<kernel, m_block, bidb, bidh, n_split_idx, n_block_min,
                 \* n_block_max>> of every block that has computed its tile range
    threads      \* when one block is followed thread by thread: each thread's
                 \* position, loop counters and its part of the shared tiles

vars == <<params, phase, pending, cur, gO, gLSE, gOaccum, gLSEaccum, gKV, rng_state, ref, ranges,
          threads>>

----------------------------------------------------------------------------
(* Bounds of the model *)

MaxSeqQ == 5
MaxSeqK == 6
MaxWindow == 2
MaxSplits == 2
MaxGrid == 4
MaxPipeQ == 3
MaxPipeK == 4
MaxCacheQ == 2
MaxKnew == 3

\* page_block_size of a paged KV cache, in rows
PageSizes == {2, 3, 4}

\* (kBlockM, kBlockN) of Kernel_traits, scaled down; ceil(kBlockM/kBlockN) is 1 or 2
TileShapes == {<<2, 2>>, <<4, 2>>, <<2, 4>>}

----------------------------------------------------------------------------
(* Integer helpers: C++ int arithmetic *)

Max(a, b) == IF a >= b THEN a ELSE b
Min(a, b) == IF a <= b THEN a ELSE b

\* C++ '/' on ints truncates toward zero (b > 0)
TruncDiv(a, b) == IF a >= 0 THEN a \div b ELSE -((-a) \div b)

\* cute::ceil_div(a, b) is (a + b - 1) / b
ceil_div(a, b) == TruncDiv(a + b - 1, b)

\* mathematical floor and ceiling of a / b (b > 0), used to state claims
FloorDiv(a, b) == a \div b
CeilDiv(a, b) == -((-a) \div b)

----------------------------------------------------------------------------
(* Values: <<n, d>> with d > 0 is the rational n/d in lowest terms; d = 0   *)
(* marks a special value.                                                  *)

NaN == <<0, 0>>
PInf == <<1, 0>>
Unwritten == <<2, 0>>      \* memory no kernel has written
Stale == <<3, 0>>          \* shared-memory row a predicated copy skipped
Cleared == <<4, 0>>        \* shared-memory row zeroed by Clear_OOB_MN
Zero == <<0, 1>>
One == <<1, 1>>

IsFin(x) == x[2] # 0

RECURSIVE GCD(_, _)
GCD(a, b) == IF b = 0 THEN a ELSE GCD(b, a % b)

Rat(n, d) ==
    LET g == GCD(IF n < 0 THEN -n ELSE n, d)
    IN IF n = 0 THEN Zero ELSE <<n \div g, d \div g>>

RAdd(x, y) == IF IsFin(x) /\ IsFin(y) THEN Rat(x[1] * y[2] + y[1] * x[2], x[2] * y[2]) ELSE NaN
RMul(x, y) == IF IsFin(x) /\ IsFin(y) THEN Rat(x[1] * y[1], x[2] * y[2]) ELSE NaN
\* x / y for y > 0
RDiv(x, y) == IF IsFin(x) /\ IsFin(y) /\ y[1] > 0 THEN Rat(x[1] * y[2], x[2] * y[1]) ELSE NaN
RLeq(x, y) == x[1] * y[2] <= y[1] * x[2]
RMax(x, y) == IF RLeq(x, y) THEN y ELSE x

RECURSIVE RSum(_, _)
\* sum of f[i] over the finite set S
RSum(f, S) == IF S = {} THEN Zero
              ELSE LET i == CHOOSE j \in S : TRUE IN RAdd(f[i], RSum(f, S \ {i}))

RECURSIVE RMaxOver(_, _)
\* maximum of f[i] over S, 0 (that is -inf) for the empty set
RMaxOver(f, S) == IF S = {} THEN Zero
                  ELSE LET i == CHOOSE j \in S : TRUE IN RMax(f[i], RMaxOver(f, S \ {i}))

RECURSIVE Pow2(_)
Pow2(e) == IF e = 0 THEN 1 ELSE 2 * Pow2(e - 1)

----------------------------------------------------------------------------
(* Input data.  Key row a of a (batch, KV head) has 2^logit = key_weight(a) *)
(* against every query row, and value key_value(a).  Weights grow toward   *)
(* low rows so that the running max changes while tiles are walked from    *)
(* the last to the first.                                                  *)

key_weight(a) == <<Pow2((MaxSeqK + 1 - a) \div 2), 1>>
key_value(a) == <<a + 1, 1>>

----------------------------------------------------------------------------
(* BlockInfo<Varlen = !Is_even_MN>: per-batch lengths.  cu_seqlens_* are    *)
(* kept as the per-batch lengths they encode; <<>> stands for nullptr.     *)

actual_seqlen_q(bidb) ==
    IF params.Is_even_MN \/ params.cu_seqlens_q = <<>>
    THEN params.seqlen_q ELSE params.cu_seqlens_q[bidb + 1]

seqlen_k_cache(bidb) ==
    IF params.Is_even_MN \/ params.cu_seqlens_k = <<>>
    THEN params.seqlen_k ELSE params.cu_seqlens_k[bidb + 1]

actual_seqlen_k(bidb) ==
    seqlen_k_cache(bidb) + (IF params.knew_ptr THEN params.seqlen_knew ELSE 0)

\* flash::copy<Is_even_MN, ...>(..., max_MN): the tile rows that are copied
copy_rows(Is_even_MN, nrows, max_MN) ==
    {r \in 0 .. nrows - 1 : Is_even_MN \/ r < max_MN}

----------------------------------------------------------------------------
(* Mask::apply_mask<Causal_mask, Is_even_MN> on the logit of query row i    *)
(* and key column j: TRUE when the logit is set to -inf.                   *)

masked(Causal_mask, Is_even_MN, bidb, i, j) ==
    LET ak == actual_seqlen_k(bidb)
        aq == actual_seqlen_q(bidb)
        left == Max(0, i + ak - aq - params.window_size_left)
        right == Min(ak, i + 1 + ak - aq + params.window_size_right)
    IN IF ~Causal_mask /\ ~params.Is_local THEN ~Is_even_MN /\ j >= ak
       ELSE IF params.Is_local THEN j >= right \/ j < left
       ELSE j >= right

----------------------------------------------------------------------------
(* Softmax: the running max, denominator and output accumulator of one     *)
(* query row.  max is 2^m (0 for m = -inf); sum and o are relative to it.  *)

SoftmaxInit == [max |-> Zero, sum |-> Zero, o |-> Zero]

\* the key row of batch bidb that is stored at row address a of the K/V
\* buffers of KV head hk, -1 when the address holds no key of the sequence.
\* Unpaged, batch bidb starts at bidb * k_batch_stride; paged, address
\* p * page_block_size + o is row o of physical page p.  A row at or past
\* seqlen_k_cache is there only once an append has written it.
key_at(bidb, hk, a) ==
    LET ak == actual_seqlen_k(bidb)
        kc == seqlen_k_cache(bidb)
        P == params.page_block_size
        bt == params.block_table[bidb + 1]
        hit == {i \in 1 .. Len(bt) : bt[i] = a \div P}
        l == IF params.block_table = <<>> THEN a - bidb * params.k_batch_stride
             ELSE IF a >= 0 /\ hit # {} THEN ((CHOOSE i \in hit : TRUE) - 1) * P + (a % P)
             ELSE -1
    IN IF l < 0 \/ l >= ak THEN -1
       ELSE IF l < kc THEN l
       ELSE IF <<hk, a>> \in DOMAIN gKV /\ gKV[<<hk, a>>] = l - kc THEN l
       ELSE -1

\* the weight of the key held in shared-memory row c of sK, NaN when the row
\* holds no key of the sequence (a stale row, or an address outside it)
smem_weight(sK, c, bidb, hk) ==
    LET a == sK[c + 1]
    IN IF IsFin(a) /\ key_at(bidb, hk, a[1]) >= 0
       THEN key_weight(key_at(bidb, hk, a[1])) ELSE NaN

\* the value row held in row c of sV; a row cleared by Clear_OOB_MN is 0
smem_value(sV, c, bidb, hk) ==
    LET a == sV[c + 1]
    IN IF a = Cleared THEN Zero
       ELSE IF IsFin(a) /\ key_at(bidb, hk, a[1]) >= 0
       THEN key_value(key_at(bidb, hk, a[1])) ELSE NaN

\* softmax_rescale_o<Is_first, Check_inf> followed by the P.V gemm, for one
\* row whose unmasked tile columns are U
softmax_rescale_o(st, Is_first, Check_inf, U, sK, sV, bidb, hk) ==
    LET w == [c \in U |-> smem_weight(sK, c, bidb, hk)]
        bad == \E c \in U : ~IsFin(w[c])
        tmax == RMaxOver(w, U)
        newmax == IF Is_first THEN tmax ELSE RMax(st.max, tmax)
        \* scale_apply_exp2 subtracts 0 instead of a max of -inf
        max_scaled == IF newmax = Zero THEN One ELSE newmax
        \* the rescale of the previous sum and accumulator
        max_cur == IF Check_inf /\ newmax = Zero THEN One ELSE newmax
        scale == IF Is_first THEN One
                 ELSE IF max_cur = Zero THEN NaN      \* exp2(-inf - (-inf))
                 ELSE RDiv(st.max, max_cur)
        p == [c \in U |-> RDiv(w[c], max_scaled)]
        pv == [c \in U |-> RMul(p[c], smem_value(sV, c, bidb, hk))]
    IN IF bad THEN [max |-> newmax, sum |-> NaN, o |-> NaN]
       ELSE [max |-> newmax,
             sum |-> RAdd(RMul(st.sum, scale), RSum(p, U)),
             o |-> RAdd(RMul(st.o, scale), RSum(pv, U))]

\* normalize_softmax_lse<Is_dropout, Split>: the row of O and its LSE (as 2^lse)
normalize_softmax_lse(st, Split) ==
    LET empty == st.sum = Zero \/ ~IsFin(st.sum)
    IN [o |-> IF empty THEN st.o ELSE RDiv(st.o, st.sum),
        lse |-> IF empty THEN (IF Split THEN Zero ELSE PInf)
                ELSE RMul(st.sum, IF st.max = Zero THEN One ELSE st.max)]

----------------------------------------------------------------------------
(* compute_attn_1rowblock: tile range *)

\* the lower bound without window_size_left
n_block_min_dense_no_window(m_block, bidb) ==
    IF ~params.Is_local THEN 0
    ELSE Max(0, TruncDiv(m_block * params.kBlockM + actual_seqlen_k(bidb)
                         - actual_seqlen_q(bidb), params.kBlockN))

\* lines 75-83
n_block_min_dense(m_block, bidb) ==
    IF ~params.Is_local THEN 0
    ELSE Max(0, TruncDiv(m_block * params.kBlockM + actual_seqlen_k(bidb)
                         - actual_seqlen_q(bidb) - params.window_size_left, params.kBlockN))

\* the upper bound without window_size_right in the clamp
n_block_max_dense_no_window(m_block, bidb) ==
    LET full == ceil_div(actual_seqlen_k(bidb), params.kBlockN)
    IN IF params.Is_causal \/ params.Is_local
       THEN Min(full, ceil_div((m_block + 1) * params.kBlockM + actual_seqlen_k(bidb)
                               - actual_seqlen_q(bidb), params.kBlockN))
       ELSE full

n_block_max_dense(m_block, bidb) ==
    LET full == ceil_div(actual_seqlen_k(bidb), params.kBlockN)
    IN IF params.Is_causal \/ params.Is_local
       THEN Min(full, ceil_div((m_block + 1) * params.kBlockM + actual_seqlen_k(bidb)
                               - actual_seqlen_q(bidb) + params.window_size_right,
                               params.kBlockN))
       ELSE full

\* line 89: the compile-time part of the early-exit condition
dense_exit_guard == params.Is_causal \/ params.Is_local \/ ~params.Is_even_MN

\* the masking steps with the tile sizes exchanged
n_masking_steps_exchanged ==
    IF ~params.Is_causal /\ ~params.Is_local THEN 1
    ELSE IF params.Is_even_MN /\ params.Is_causal
         THEN ceil_div(params.kBlockN, params.kBlockM)
         ELSE ceil_div(params.kBlockN, params.kBlockM) + 1

\* lines 329-331 and 959-961
n_masking_steps ==
    IF ~params.Is_causal /\ ~params.Is_local THEN 1
    ELSE IF params.Is_even_MN /\ params.Is_causal
         THEN ceil_div(params.kBlockM, params.kBlockN)
         ELSE ceil_div(params.kBlockM, params.kBlockN) + 1

\* a masking loop that never leaves early
masking_break_never(n_block) == FALSE

\* lines 437-440 and 1023-1026: the masking loop left at the bottom of the range
masking_break(n_block) == n_masking_steps > 1 /\ n_block <= cur.n_block_min

----------------------------------------------------------------------------
(* Memory *)

\* flat index of row i of (bidb, bidh) in softmax_lse
lse_index(bidb, bidh, i) == (bidb * params.h + bidh) * params.seqlen_q + i

\* rows of one (batch, head) that a tile can address
TileRows == 0 .. (ceil_div(params.seqlen_q, params.kBlockM) * params.kBlockM - 1)

LseCells ==
    0 .. (params.b * params.h * params.seqlen_q + Max(params.kBlockM, params.cBlockM) - 1)

OCells == {<<b, h, i>> : b \in 0 .. params.b - 1, h \in 0 .. params.h - 1, i \in TileRows}

IdleBlock ==
    [pc |-> "idle", kernel |-> "none", m_block |-> 0, bidb |-> 0, bidh |-> 0,
     n_split_idx |-> 0, exit |-> "none",
     n_block_min |-> 0, n_block_max |-> 0, n_block |-> 0, masking_step |-> 0,
     tKgK |-> 0, tVgV |-> 0, sK |-> <<>>, sV |-> <<>>, softmax |-> <<>>,
     tiles |-> <<>>, kLoads |-> <<>>, vLoads |-> <<>>,
     n_block_copy |-> 0, l |-> 0, sLSE_reads |-> <<>>, tKgK_data |-> 0, tVgV_data |-> 0, appended |-> <<>>, reads |-> {}, sLSE |-> <<>>, stores |-> {}, qLoad |-> <<>>]

\* flash::copy of a K or V tile from row address ptr into shared memory: the
\* rows it copies, and the shared-memory tile afterwards
tile_rows(Is_even_MN, max_MN) == copy_rows(Is_even_MN, params.kBlockN, max_MN)

tile_load(old, ptr, Is_even_MN, Clear_OOB_MN, max_MN) ==
    [c \in 1 .. params.kBlockN |->
        IF c - 1 \in tile_rows(Is_even_MN, max_MN) THEN <<ptr + c - 1, 1>>
        ELSE IF Clear_OOB_MN THEN Cleared ELSE old[c]]

load_record(n, ptr, Is_even_MN, max_MN) ==
    [n_block |-> n, ptr |-> ptr, rows |-> tile_rows(Is_even_MN, max_MN)]

\* tile columns of row r of the block's tile that apply_mask leaves in place
unmasked(Causal_mask, Is_even_MN, r) ==
    {c \in 0 .. params.kBlockN - 1 :
        ~masked(Causal_mask, Is_even_MN, cur.bidb,
                cur.m_block * params.kBlockM + r, cur.n_block * params.kBlockN + c)}

\* a masking loop whose every iteration initialises the running statistics
Is_first_always(masking_step) == TRUE

\* lines 388-390, 1029-1031: the Is_first argument of softmax_rescale_o in the
\* masking loop
Is_first_step(masking_step) == masking_step = 0

\* gemm, apply_mask, softmax_rescale_o, gemm_rs of one loop iteration, per row
attend(Causal_mask, Is_even_MN, Is_first, Check_inf, sV) ==
    [r \in 0 .. params.kBlockM - 1 |->
        softmax_rescale_o(cur.softmax[r], Is_first, Check_inf,
                          unmasked(Causal_mask, Is_even_MN, r), cur.sK, sV, cur.bidb,
                          TruncDiv(cur.bidh, params.h_h_k_ratio))]

StaleTile == [c \in 1 .. params.kBlockN |-> Stale]

----------------------------------------------------------------------------
(* compute_attn_1rowblock *)

\* the state saved only by a block that passes the query-length return
save_rng_state_after_return(blk) ==
    /\ params.Is_dropout /\ blk = <<0, 0, 0>>
    /\ blk[1] * params.kBlockM < actual_seqlen_q(blk[2])

\* line 64: Is_dropout && blockIdx.x == 0 && blockIdx.y == 0 && blockIdx.z == 0 && tidx == 0
save_rng_state(blk) == params.Is_dropout /\ blk = <<0, 0, 0>>

\* lines 58-137: rng_state, query-length return, tile range, empty-range exit
DenseStart(blk) ==
    LET m_block == blk[1]
        bidb == blk[2]
        bidh == blk[3]
        aq == actual_seqlen_q(bidb)
        nmin == n_block_min_dense(m_block, bidb)
        nmax == n_block_max_dense(m_block, bidb)
        me == [IdleBlock EXCEPT !.kernel = "dense", !.m_block = m_block,
                                !.bidb = bidb, !.bidh = bidh]
        rows == copy_rows(params.Is_even_MN, params.kBlockM, aq - m_block * params.kBlockM)
        lserows == {r \in 0 .. params.kBlockM - 1 : r < aq - m_block * params.kBlockM}
    IN
    /\ phase = "dense"
    /\ cur.pc \in {"idle", "done"}
    /\ blk \in pending
    /\ pending' = pending \ {blk}
    /\ rng_state' = IF save_rng_state(blk) THEN "saved" ELSE rng_state
    /\ ranges' = IF m_block * params.kBlockM >= aq THEN ranges
                  ELSE ranges \cup {<<"dense", m_block, bidb, bidh, 0, nmin, nmax>>}
    /\ IF m_block * params.kBlockM >= aq
       THEN /\ cur' = [me EXCEPT !.pc = "done", !.exit = "seqlen_q"]
            /\ UNCHANGED <<gO, gLSE>>
       ELSE IF dense_exit_guard /\ nmax <= nmin
       THEN /\ cur' = [me EXCEPT !.pc = "done", !.exit = "empty",
                                 !.n_block_min = nmin, !.n_block_max = nmax]
            /\ gO' = [c \in DOMAIN gO |->
                        IF c[1] = bidb /\ c[2] = bidh
                           /\ c[3] - m_block * params.kBlockM \in rows
                        THEN Zero ELSE gO[c]]
            /\ gLSE' = [c \in DOMAIN gLSE |->
                        IF c - lse_index(bidb, bidh, m_block * params.kBlockM) \in lserows
                        THEN PInf ELSE gLSE[c]]
       ELSE /\ cur' = [me EXCEPT !.pc = "prologue",
                                 !.n_block_min = nmin, !.n_block_max = nmax]
            /\ UNCHANGED <<gO, gLSE>>
    /\ UNCHANGED <<params, threads, phase, gOaccum, gLSEaccum, gKV, ref>>

\* lines 145-318: gK/gV moved to the last tile, Q copy, first K tile copy
DensePrologue ==
    LET n_block == cur.n_block_max - 1
        ptr == cur.bidb * params.k_batch_stride + n_block * params.kBlockN
        max_MN == actual_seqlen_k(cur.bidb) - n_block * params.kBlockN
    IN
    /\ cur.kernel = "dense" /\ cur.pc = "prologue"
    /\ cur' = [cur EXCEPT !.pc = "masking", !.n_block = n_block, !.masking_step = 0,
                          !.tKgK = ptr, !.tVgV = ptr,
                          !.sK = tile_load(StaleTile, ptr, params.Is_even_MN, FALSE, max_MN),
                          !.sV = StaleTile,
                          !.softmax = [r \in 0 .. params.kBlockM - 1 |-> SoftmaxInit],
                          !.kLoads = <<load_record(n_block, ptr, params.Is_even_MN, max_MN)>>]
    /\ UNCHANGED <<params, threads, phase, pending, gO, gLSE, gOaccum, gLSEaccum, gKV, rng_state, ref, ranges>>

\* lines 335-442: one iteration of the masking loop
DenseMaskingStep ==
    LET n_block == cur.n_block
        step == cur.masking_step
        max_MN == actual_seqlen_k(cur.bidb) - n_block * params.kBlockN
        vptr == IF step > 0 THEN cur.tVgV - params.kBlockN ELSE cur.tVgV
        veven == step > 0 \/ params.Is_even_MN
        sV == tile_load(cur.sV, vptr, veven, TRUE, max_MN)
        more == n_block > cur.n_block_min
        kptr == IF more THEN cur.tKgK - params.kBlockN ELSE cur.tKgK
        Check_inf == params.Is_causal \/ params.Is_local
        tile == [n_block |-> n_block, loop |-> "masking", Is_first |-> Is_first_step(step),
                 Check_inf |-> Check_inf]
        brk == masking_break(n_block)
    IN
    /\ cur.kernel = "dense" /\ cur.pc = "masking"
    /\ cur' = [cur EXCEPT
                 !.tVgV = vptr,
                 !.sV = sV,
                 !.vLoads = Append(@, load_record(n_block, vptr, veven, max_MN)),
                 !.tKgK = kptr,
                 !.sK = IF more THEN tile_load(@, kptr, TRUE, FALSE, 0) ELSE @,
                 !.kLoads = IF more THEN Append(@, load_record(n_block - 1, kptr, TRUE, 0))
                            ELSE @,
                 !.softmax = attend(params.Is_causal, params.Is_even_MN, Is_first_step(step),
                                    Check_inf, sV),
                 !.tiles = Append(@, tile),
                 !.n_block = n_block - 1,
                 !.masking_step = IF brk THEN step ELSE step + 1,
                 !.pc = IF brk \/ step + 1 >= n_masking_steps THEN "nomask" ELSE "masking"]
    /\ UNCHANGED <<params, threads, phase, pending, gO, gLSE, gOaccum, gLSEaccum, gKV, rng_state, ref, ranges>>

\* lines 446-500: one iteration of the loop without masking
DenseNoMaskStep ==
    LET n_block == cur.n_block
        vptr == cur.tVgV - params.kBlockN
        sV == tile_load(cur.sV, vptr, TRUE, FALSE, 0)
        more == n_block > cur.n_block_min
        kptr == IF more THEN cur.tKgK - params.kBlockN ELSE cur.tKgK
        tile == [n_block |-> n_block, loop |-> "nomask", Is_first |-> FALSE,
                 Check_inf |-> params.Is_local]
    IN
    /\ cur.kernel = "dense" /\ cur.pc = "nomask"
    /\ n_block >= cur.n_block_min
    /\ cur' = [cur EXCEPT
                 !.tVgV = vptr,
                 !.sV = sV,
                 !.vLoads = Append(@, load_record(n_block, vptr, TRUE, 0)),
                 !.tKgK = kptr,
                 !.sK = IF more THEN tile_load(@, kptr, TRUE, FALSE, 0) ELSE @,
                 !.kLoads = IF more THEN Append(@, load_record(n_block - 1, kptr, TRUE, 0))
                            ELSE @,
                 !.softmax = attend(FALSE, TRUE, FALSE, params.Is_local, sV),
                 !.tiles = Append(@, tile),
                 !.n_block = n_block - 1]
    /\ UNCHANGED <<params, threads, phase, pending, gO, gLSE, gOaccum, gLSEaccum, gKV, rng_state, ref, ranges>>

\* lines 502-573: normalize, write gLSE and gO under the row predicate
DenseEpilogue ==
    LET m_block == cur.m_block
        left == actual_seqlen_q(cur.bidb) - m_block * params.kBlockM
        rows == copy_rows(params.Is_even_MN, params.kBlockM, left)
        lserows == {r \in 0 .. params.kBlockM - 1 : r < left}
        out == [r \in 0 .. params.kBlockM - 1 |-> normalize_softmax_lse(cur.softmax[r], FALSE)]
    IN
    /\ cur.kernel = "dense" /\ cur.pc = "nomask"
    /\ cur.n_block < cur.n_block_min
    /\ cur' = [cur EXCEPT !.pc = "done", !.exit = "epilogue"]
    /\ gO' = [c \in DOMAIN gO |->
                IF c[1] = cur.bidb /\ c[2] = cur.bidh
                   /\ c[3] - m_block * params.kBlockM \in rows
                THEN out[c[3] - m_block * params.kBlockM].o ELSE gO[c]]
    /\ gLSE' = [c \in DOMAIN gLSE |->
                IF c - lse_index(cur.bidb, cur.bidh, m_block * params.kBlockM) \in lserows
                THEN out[c - lse_index(cur.bidb, cur.bidh, m_block * params.kBlockM)].lse
                ELSE gLSE[c]]
    /\ UNCHANGED <<params, threads, phase, pending, gOaccum, gLSEaccum, gKV, rng_state, ref, ranges>>

----------------------------------------------------------------------------
(* compute_attn_1rowblock_splitkv *)

\* lines 1224-1234: blockIdx -> (m_block, bidb, bidh, n_split_idx)
split_bidb(blk) == IF params.Split THEN TruncDiv(blk[3], params.h) ELSE blk[2]
split_bidh(blk) == IF params.Split THEN blk[3] - split_bidb(blk) * params.h ELSE blk[3]
split_idx(blk) == IF params.Split THEN blk[2] ELSE 0
num_n_splits == IF params.Split THEN params.num_splits ELSE 1

\* the tiles per split rounded down
n_blocks_per_split_floor ==
    TruncDiv(TruncDiv(params.seqlen_k + params.kBlockN - 1, params.kBlockN), num_n_splits)

\* line 611
n_blocks_per_split ==
    TruncDiv(TruncDiv(params.seqlen_k + params.kBlockN - 1, params.kBlockN)
             + num_n_splits - 1, num_n_splits)

\* lines 614-621
n_block_min_split(m_block, bidb, n_split_idx) ==
    IF ~params.Is_local THEN n_split_idx * n_blocks_per_split
    ELSE Max(n_split_idx * n_blocks_per_split,
             TruncDiv(m_block * params.kBlockM + actual_seqlen_k(bidb)
                      - actual_seqlen_q(bidb) - params.window_size_left, params.kBlockN))

n_block_max_split(m_block, bidb, n_split_idx) ==
    LET part == Min(ceil_div(actual_seqlen_k(bidb), params.kBlockN),
                    (n_split_idx + 1) * n_blocks_per_split)
    IN IF params.Is_causal \/ params.Is_local
       THEN Min(part, ceil_div((m_block + 1) * params.kBlockM + actual_seqlen_k(bidb)
                               - actual_seqlen_q(bidb) + params.window_size_right,
                               params.kBlockN))
       ELSE part

\* lines 630-632 and 1129-1131
\* the offset without the split index
row_offset_oaccum_one_split(m_block, bidb, bidh, n_split_idx) ==
    ((bidb * params.h + bidh) * params.seqlen_q + m_block * params.kBlockM) * params.d_rounded

row_offset_oaccum(m_block, bidb, bidh, n_split_idx) ==
    (((n_split_idx * params.b + bidb) * params.h + bidh) * params.seqlen_q
     + m_block * params.kBlockM) * params.d_rounded

row_offset_lseaccum(m_block, bidb, bidh, n_split_idx) ==
    ((n_split_idx * params.b + bidb) * params.h + bidh) * params.seqlen_q
    + m_block * params.kBlockM

\* the row of the block's Oaccum tile (shape (kBlockM, kHeadDim), row stride
\* kHeadDim, first element at base) that holds address c, -1 if none
oaccum_row(c, base) ==
    LET d == c - base
    IN IF d >= 0 /\ d < params.kBlockM * params.kHeadDim THEN d \div params.kHeadDim ELSE -1

\* the block's output rows written to O / Oaccum and to LSE / LSEaccum
\* (out[r] = [o, lse] for tile row r), lines 634-661 and 1133-1178
split_write_O(blkrec, out) ==
    LET left == actual_seqlen_q(blkrec.bidb) - blkrec.m_block * params.kBlockM
        rows == copy_rows(params.Is_even_MN, params.kBlockM, left)
    IN [c \in DOMAIN gO |->
          IF ~params.Split /\ c[1] = blkrec.bidb /\ c[2] = blkrec.bidh
             /\ c[3] - blkrec.m_block * params.kBlockM \in rows
          THEN out[c[3] - blkrec.m_block * params.kBlockM].o ELSE gO[c]]

\* the elements of Oaccum that the block stores: element k of tile row r at
\* row_offset_oaccum + r * kHeadDim + k (gOaccum has shape (kBlockM, kHeadDim)
\* and strides (kHeadDim, 1)), lines 633-635 and 1135-1137
oaccum_stores(blkrec) ==
    LET left == actual_seqlen_q(blkrec.bidb) - blkrec.m_block * params.kBlockM
        rows == copy_rows(params.Is_even_MN, params.kBlockM, left)
        base == row_offset_oaccum(blkrec.m_block, blkrec.bidb, blkrec.bidh, blkrec.n_split_idx)
    IN IF ~params.Split THEN {}
       ELSE {[addr |-> c, row |-> oaccum_row(c, base), k |-> (c - base) % params.kHeadDim] :
               c \in {x \in DOMAIN gOaccum : oaccum_row(x, base) \in rows}}

\* an exit that leaves Oaccum alone
split_write_Oaccum_none(blkrec, out) == gOaccum

split_write_Oaccum(blkrec, out) ==
    LET left == actual_seqlen_q(blkrec.bidb) - blkrec.m_block * params.kBlockM
        rows == copy_rows(params.Is_even_MN, params.kBlockM, left)
        base == row_offset_oaccum(blkrec.m_block, blkrec.bidb, blkrec.bidh, blkrec.n_split_idx)
    IN [c \in DOMAIN gOaccum |->
          IF params.Split /\ oaccum_row(c, base) \in rows
          THEN out[oaccum_row(c, base)].o ELSE gOaccum[c]]

split_write_LSE(blkrec, out) ==
    LET left == actual_seqlen_q(blkrec.bidb) - blkrec.m_block * params.kBlockM
        base == row_offset_lseaccum(blkrec.m_block, blkrec.bidb, blkrec.bidh, blkrec.n_split_idx)
    IN [c \in DOMAIN gLSE |->
          IF ~params.Split /\ c - base \in 0 .. params.kBlockM - 1 /\ c - base < left
          THEN out[c - base].lse ELSE gLSE[c]]

\* LSEaccum written for every row of the tile
split_write_LSEaccum_all_rows(blkrec, out) ==
    LET base == row_offset_lseaccum(blkrec.m_block, blkrec.bidb, blkrec.bidh, blkrec.n_split_idx)
    IN [c \in DOMAIN gLSEaccum |->
          IF params.Split /\ c - base \in 0 .. params.kBlockM - 1
          THEN out[c - base].lse ELSE gLSEaccum[c]]

split_write_LSEaccum(blkrec, out) ==
    LET left == actual_seqlen_q(blkrec.bidb) - blkrec.m_block * params.kBlockM
        base == row_offset_lseaccum(blkrec.m_block, blkrec.bidb, blkrec.bidh, blkrec.n_split_idx)
    IN [c \in DOMAIN gLSEaccum |->
          IF params.Split /\ c - base \in 0 .. params.kBlockM - 1 /\ c - base < left
          THEN out[c - base].lse ELSE gLSEaccum[c]]

\* an in-page offset that is the row index in the whole cache
block_table_offset_in_cache(n) == n * params.kBlockN

\* lines 691-710: page index and in-page offset of the first row of tile n
block_table_idx(n) == TruncDiv(n * params.kBlockN, params.page_block_size)
block_table_offset(n) == n * params.kBlockN - block_table_idx(n) * params.page_block_size

\* block_table[idx] of batch bidb; an index past the table reads what follows it
block_table_at(bidb, idx) ==
    LET bt == params.block_table[bidb + 1]
    IN IF idx >= 0 /\ idx < Len(bt) THEN bt[idx + 1] ELSE params.num_pages

\* lines 702-710: row address of the first row of tile n (K and V alike)
row_offset_k(bidb, n) ==
    IF params.block_table = <<>>
    THEN bidb * params.k_batch_stride + n * params.kBlockN
    ELSE block_table_at(bidb, block_table_idx(n)) * params.k_batch_stride
         + block_table_offset(n)

\* the pointer moved as in a contiguous cache
advance_contiguous(ptr, bidb, n_cur, n_next) == ptr - params.kBlockN

\* lines 974-985, 1010-1021: the tile pointer moved from tile n_cur to n_next
advance(ptr, bidb, n_cur, n_next) ==
    IF params.block_table = <<>>
    THEN ptr - params.kBlockN
    ELSE ptr + (block_table_at(bidb, block_table_idx(n_next))
                - block_table_at(bidb, block_table_idx(n_cur))) * params.k_batch_stride
             + (block_table_offset(n_next) - block_table_offset(n_cur))

\* lines 603-663: query-length return, tile range, empty-range exit
SplitStart(blk) ==
    LET m_block == blk[1]
        bidb == split_bidb(blk)
        bidh == split_bidh(blk)
        n_split_idx == split_idx(blk)
        nmin == n_block_min_split(m_block, bidb, n_split_idx)
        nmax == n_block_max_split(m_block, bidb, n_split_idx)
        me == [IdleBlock EXCEPT !.kernel = "splitkv", !.m_block = m_block, !.bidb = bidb,
                                !.bidh = bidh, !.n_split_idx = n_split_idx]
        out == [r \in 0 .. params.kBlockM - 1 |->
                  [o |-> Zero, lse |-> IF params.Split THEN Zero ELSE PInf]]
    IN
    /\ phase = "splitkv"
    /\ cur.pc \in {"idle", "done"}
    /\ blk \in pending
    /\ pending' = pending \ {blk}
    /\ ranges' = IF m_block * params.kBlockM >= actual_seqlen_q(bidb) THEN ranges
                  ELSE ranges \cup {<<"splitkv", m_block, bidb, bidh, n_split_idx, nmin, nmax>>}
    /\ IF m_block * params.kBlockM >= actual_seqlen_q(bidb)
       THEN /\ cur' = [me EXCEPT !.pc = "done", !.exit = "seqlen_q"]
            /\ UNCHANGED <<gO, gLSE, gOaccum, gLSEaccum>>
       ELSE IF nmin >= nmax
       THEN /\ cur' = [me EXCEPT !.pc = "done", !.exit = "empty",
                                 !.n_block_min = nmin, !.n_block_max = nmax,
                                 !.stores = oaccum_stores(me)]
            /\ gO' = split_write_O(me, out)
            /\ gOaccum' = split_write_Oaccum(me, out)
            /\ gLSE' = split_write_LSE(me, out)
            /\ gLSEaccum' = split_write_LSEaccum(me, out)
       ELSE /\ cur' = [me EXCEPT !.pc = IF params.Append_KV THEN "append" ELSE "prologue",
                                 !.n_block_min = nmin, !.n_block_max = nmax,
                                 !.n_block_copy = nmax - 1,
                                 !.tKgK = row_offset_k(bidb, nmax - 1),
                                 !.tVgV = row_offset_k(bidb, nmax - 1),
                                 !.tKgK_data = row_offset_k(bidb, nmax - 1),
                                 !.tVgV_data = row_offset_k(bidb, nmax - 1)]
            /\ UNCHANGED <<gO, gLSE, gOaccum, gLSEaccum>>
    /\ UNCHANGED <<params, threads, phase, gKV, rng_state, ref>>

\* an append loop that stops one tile early
n_block_copy_min_early ==
    Max(cur.n_block_min, TruncDiv(seqlen_k_cache(cur.bidb), params.kBlockN)) + 1

\* line 842
n_block_copy_min == Max(cur.n_block_min, TruncDiv(seqlen_k_cache(cur.bidb), params.kBlockN))

\* a copy that has no lower row bound
copy_w_min_idx_unbounded(max_MN, min_MN) ==
    {r \in 0 .. params.kBlockN - 1 : r < max_MN}

\* copy_w_min_idx: the tile rows r with min_MN <= r < max_MN are copied
copy_w_min_idx(max_MN, min_MN) ==
    {r \in 0 .. params.kBlockN - 1 : r >= min_MN /\ r < max_MN}

\* a Knew / Vnew tile that starts at the block's own last tile
knew_row_of_block(n_block, r) ==
    (n_block - (cur.n_block_max - 1)) * params.kBlockN + r

\* lines 822-836: the row of Knew / Vnew that is copied to row r of tile
\* n_block; gKnew and gVnew are moved back by seqlen_k_cache rows so that they
\* line up with gK and gV
knew_row(n_block, r) ==
    n_block * params.kBlockN + r - seqlen_k_cache(cur.bidb)

\* lines 845-894: one iteration of the append loop.  copy_w_min_idx copies tile
\* rows r with min_MN <= r < max_MN from Knew/Vnew (row n_block * kBlockN + r
\* - seqlen_k_cache) to row address tKgK + r of the cache.
SplitAppendStep ==
    LET n_block == cur.n_block_copy
        max_MN == actual_seqlen_k(cur.bidb) - n_block * params.kBlockN
        min_MN == seqlen_k_cache(cur.bidb) - n_block * params.kBlockN
        rows == copy_w_min_idx(max_MN, min_MN)
        hk == TruncDiv(cur.bidh, params.h_h_k_ratio)
        wr == {[head |-> hk, addr |-> cur.tKgK + r,
                src |-> knew_row(n_block, r)] : r \in rows}
        moved == params.block_table = <<>> \/ n_block > n_block_copy_min
        ptr == IF moved THEN advance(cur.tKgK, cur.bidb, n_block, n_block - 1) ELSE cur.tKgK
    IN
    /\ cur.kernel = "splitkv" /\ cur.pc = "append"
    /\ n_block >= n_block_copy_min
    /\ gKV' = [c \in DOMAIN gKV |->
                 IF \E w \in wr : w.head = c[1] /\ w.addr = c[2]
                 THEN (CHOOSE w \in wr : w.head = c[1] /\ w.addr = c[2]).src
                 ELSE gKV[c]]
    /\ cur' = [cur EXCEPT !.appended = Append(@, [n_block |-> n_block, writes |-> wr]),
                          !.tKgK = ptr, !.tVgV = ptr,
                          !.n_block_copy = n_block - 1]
    /\ UNCHANGED <<params, threads, phase, pending, gO, gLSE, gOaccum, gLSEaccum, rng_state, ref, ranges>>

\* lines 896-899: end of the append loop, tKgK and tVgV restored
SplitAppendEnd ==
    /\ cur.kernel = "splitkv" /\ cur.pc = "append"
    /\ cur.n_block_copy < n_block_copy_min
    /\ cur' = [cur EXCEPT !.pc = "prologue",
                          !.tKgK = cur.tKgK_data,
                          !.tVgV = cur.tVgV_data]
    /\ UNCHANGED <<params, threads, phase, pending, gO, gLSE, gOaccum, gLSEaccum, gKV, rng_state, ref, ranges>>

\* a cos/sin tile whose rows are rotary_dim / 2 apart under every mask
cossin_row_stride_always ==
    params.rotary_dim \div 2

\* lines 912, 915, 918, 921: row stride of gCos / gSin
cossin_row_stride ==
    IF params.Is_causal \/ params.Is_local THEN params.rotary_dim \div 2 ELSE 0

\* line 907
row_offset_cossin(m_block, bidb) ==
    (seqlen_k_cache(bidb) + (IF params.Is_causal \/ params.Is_local
                             THEN m_block * params.kBlockM ELSE 0))
    * (params.rotary_dim \div 2)

\* lines 902-937: the Q copy.  For each row of the tile that is copied, the
\* offset in the cos / sin table of the row it is rotated with, -1 when the
\* row is copied unrotated.  The table is row-major with rotary_dim / 2 columns.
load_Q(m_block, bidb) ==
    LET left == actual_seqlen_q(bidb) - m_block * params.kBlockM
    IN IF ~params.Append_KV \/ params.rotary_dim = 0
       THEN [r \in copy_rows(params.Is_even_MN, params.kBlockM, left) |-> -1]
       ELSE [r \in copy_rows(FALSE, params.kBlockM, left) |->
               row_offset_cossin(m_block, bidb) + r * cossin_row_stride]

\* lines 901-955: Q copy, first K tile copy
SplitPrologue ==
    LET n_block == cur.n_block_max - 1
        max_MN == actual_seqlen_k(cur.bidb) - n_block * params.kBlockN
    IN
    /\ cur.kernel = "splitkv" /\ cur.pc = "prologue"
    /\ cur' = [cur EXCEPT !.pc = "masking", !.n_block = n_block, !.masking_step = 0,
                          !.qLoad = load_Q(cur.m_block, cur.bidb),
                          !.sK = tile_load(StaleTile, cur.tKgK, params.Is_even_MN, FALSE, max_MN),
                          !.sV = StaleTile,
                          !.softmax = [r \in 0 .. params.kBlockM - 1 |-> SoftmaxInit],
                          !.kLoads = <<load_record(n_block, cur.tKgK, params.Is_even_MN, max_MN)>>]
    /\ UNCHANGED <<params, threads, phase, pending, gO, gLSE, gOaccum, gLSEaccum, gKV, rng_state, ref, ranges>>

\* lines 965-1045: one iteration of the masking loop
SplitMaskingStep ==
    LET n_block == cur.n_block
        step == cur.masking_step
        max_MN == actual_seqlen_k(cur.bidb) - n_block * params.kBlockN
        vptr == IF step > 0 THEN advance(cur.tVgV, cur.bidb, n_block + 1, n_block)
                ELSE cur.tVgV
        veven == step > 0 \/ params.Is_even_MN
        sV == tile_load(cur.sV, vptr, veven, TRUE, max_MN)
        more == n_block > cur.n_block_min
        kptr == IF more THEN advance(cur.tKgK, cur.bidb, n_block, n_block - 1) ELSE cur.tKgK
        Check_inf == params.Is_causal \/ params.Is_local \/ ~params.Is_even_MN
        tile == [n_block |-> n_block, loop |-> "masking", Is_first |-> Is_first_step(step),
                 Check_inf |-> Check_inf]
        brk == masking_break(n_block)
    IN
    /\ cur.kernel = "splitkv" /\ cur.pc = "masking"
    /\ cur' = [cur EXCEPT
                 !.tVgV = vptr,
                 !.sV = sV,
                 !.vLoads = Append(@, load_record(n_block, vptr, veven, max_MN)),
                 !.tKgK = kptr,
                 !.sK = IF more THEN tile_load(@, kptr, TRUE, FALSE, 0) ELSE @,
                 !.kLoads = IF more THEN Append(@, load_record(n_block - 1, kptr, TRUE, 0))
                            ELSE @,
                 !.softmax = attend(params.Is_causal, params.Is_even_MN, Is_first_step(step),
                                    Check_inf, sV),
                 !.tiles = Append(@, tile),
                 !.n_block = n_block - 1,
                 !.masking_step = IF brk THEN step ELSE step + 1,
                 !.pc = IF brk \/ step + 1 >= n_masking_steps THEN "nomask" ELSE "masking"]
    /\ UNCHANGED <<params, threads, phase, pending, gO, gLSE, gOaccum, gLSEaccum, gKV, rng_state, ref, ranges>>

\* lines 1048-1103: one iteration of the loop without masking
SplitNoMaskStep ==
    LET n_block == cur.n_block
        vptr == advance(cur.tVgV, cur.bidb, n_block + 1, n_block)
        sV == tile_load(cur.sV, vptr, TRUE, FALSE, 0)
        more == n_block > cur.n_block_min
        kptr == IF more THEN advance(cur.tKgK, cur.bidb, n_block, n_block - 1) ELSE cur.tKgK
        tile == [n_block |-> n_block, loop |-> "nomask", Is_first |-> FALSE,
                 Check_inf |-> params.Is_local]
    IN
    /\ cur.kernel = "splitkv" /\ cur.pc = "nomask"
    /\ n_block >= cur.n_block_min
    /\ cur' = [cur EXCEPT
                 !.tVgV = vptr,
                 !.sV = sV,
                 !.vLoads = Append(@, load_record(n_block, vptr, TRUE, 0)),
                 !.tKgK = kptr,
                 !.sK = IF more THEN tile_load(@, kptr, TRUE, FALSE, 0) ELSE @,
                 !.kLoads = IF more THEN Append(@, load_record(n_block - 1, kptr, TRUE, 0))
                            ELSE @,
                 !.softmax = attend(FALSE, TRUE, FALSE, params.Is_local, sV),
                 !.tiles = Append(@, tile),
                 !.n_block = n_block - 1]
    /\ UNCHANGED <<params, threads, phase, pending, gO, gLSE, gOaccum, gLSEaccum, gKV, rng_state, ref, ranges>>

\* lines 1105-1178: normalize, write LSE(accum) and O(accum) under the row predicate
SplitEpilogue ==
    LET out == [r \in 0 .. params.kBlockM - 1 |->
                  normalize_softmax_lse(cur.softmax[r], params.Split)]
    IN
    /\ cur.kernel = "splitkv" /\ cur.pc = "nomask"
    /\ cur.n_block < cur.n_block_min
    /\ cur' = [cur EXCEPT !.pc = "done", !.exit = "epilogue", !.stores = oaccum_stores(cur)]
    /\ gO' = split_write_O(cur, out)
    /\ gOaccum' = split_write_Oaccum(cur, out)
    /\ gLSE' = split_write_LSE(cur, out)
    /\ gLSEaccum' = split_write_LSEaccum(cur, out)
    /\ UNCHANGED <<params, threads, phase, pending, gKV, rng_state, ref, ranges>>

----------------------------------------------------------------------------
(* combine_attn_seqk_parallel *)

\* the reduction without the guards for a row whose partial LSEs are all -inf
combine_lse_unguarded(vals) ==
    LET S == DOMAIN vals
        lse_max == RMaxOver(vals, S)
        lse_sum == RSum([s \in S |-> RDiv(vals[s], lse_max)], S)
        lse_logsum == RMul(lse_sum, lse_max)
    IN [lse |-> lse_logsum, scale |-> [s \in S |-> RDiv(vals[s], lse_logsum)]]

\* lines 1298-1321: the log-sum-exp of the partial LSEs of one row and the
\* scale of every split; vals[s] is 2^lse_accum of split s
combine_lse(vals) ==
    LET S == DOMAIN vals
        garbage == \E s \in S : ~IsFin(vals[s])
        lse_max == RMaxOver(vals, S)
        \* lse_max == -INFINITY ? 0.0f : lse_max
        max0 == IF lse_max = Zero THEN One ELSE lse_max
        lse_sum == RSum([s \in S |-> RDiv(vals[s], max0)], S)
        lse_logsum == IF lse_sum = Zero THEN PInf ELSE RMul(lse_sum, max0)
    IN IF garbage THEN [lse |-> NaN, scale |-> [s \in S |-> NaN]]
       ELSE [lse |-> lse_logsum,
             scale |-> [s \in S |-> IF lse_logsum = PInf THEN Zero
                                    ELSE RDiv(vals[s], lse_logsum)]]

RECURSIVE combine_o(_, _, _)
\* lines 1350-1369: tOrO += lse_scale * tOrOaccum over the splits below n
combine_o(scale, oacc, n) ==
    IF n = 0 THEN Zero
    ELSE RAdd(combine_o(scale, oacc, n - 1), RMul(scale[n - 1], oacc[n - 1]))

\* rows of O and LSE in all: b * h * seqlen_q
total_rows == params.b * params.h * params.seqlen_q

\* lines 1269-1278: the rows of block bidx whose partial results are read
combine_rows(bidx) ==
    {col \in 0 .. params.cBlockM - 1 : col < total_rows - bidx * params.cBlockM}

\* lines 1259-1261: element (s, col) of the block's gLSEaccum tensor
combine_lse_addr(bidx, s, col) == bidx * params.cBlockM + s * total_rows + col

\* lines 1325-1328, 1368: first element of row r of split s of gOaccum
combine_o_addr(bidx, s, r) ==
    bidx * params.cBlockM * params.d_rounded + r * params.kHeadDim
    + s * total_rows * params.d_rounded

\* lines 1378-1381: (batch_idx, head_idx, row) of output row idx
combine_o_cell(idx) ==
    LET batch_idx == TruncDiv(idx, params.h * params.seqlen_q)
        head_idx == TruncDiv(idx - batch_idx * (params.h * params.seqlen_q),
                             params.seqlen_q)
    IN <<batch_idx, head_idx,
         idx - batch_idx * (params.h * params.seqlen_q) - head_idx * params.seqlen_q>>

\* one block of the combine grid, lines 1240-1398
CombineBlock(blk) ==
    LET bidx == blk[1]
        M == params.cBlockM
        S == 0 .. params.num_splits - 1
        live == combine_rows(bidx)
        lse_addr(s, col) == combine_lse_addr(bidx, s, col)
        o_addr(s, r) == combine_o_addr(bidx, s, r)
        res == [col \in 0 .. M - 1 |->
                  combine_lse([s \in S |-> IF col \in live THEN gLSEaccum[lse_addr(s, col)]
                                           ELSE Zero])]
        o == [r \in live |->
                combine_o(res[r].scale, [s \in S |-> gOaccum[o_addr(s, r)]],
                          params.num_splits)]
        target == {c \in DOMAIN gO : \E r \in live : c = combine_o_cell(bidx * M + r)}
    IN
    /\ phase = "combine"
    /\ cur.pc \in {"idle", "done"}
    /\ blk \in pending
    /\ pending' = pending \ {blk}
    /\ cur' = [IdleBlock EXCEPT
                 !.kernel = "combine", !.m_block = bidx, !.pc = "done", !.exit = "combine",
                 !.sLSE = [col \in 0 .. M - 1 |-> res[col].scale],
                 !.reads = {[buf |-> "LSEaccum", addr |-> lse_addr(s, col)] :
                               s \in S, col \in live}
                           \cup {[buf |-> "Oaccum", addr |-> o_addr(s, r) + k] :
                                    s \in S, r \in live, k \in 0 .. params.kHeadDim - 1}]
    /\ gLSE' = [c \in DOMAIN gLSE |->
                  IF c - bidx * M \in 0 .. M - 1 THEN res[c - bidx * M].lse ELSE gLSE[c]]
    /\ gO' = [c \in DOMAIN gO |->
                IF c \in target
                THEN o[(c[1] * params.h + c[2]) * params.seqlen_q + c[3] - bidx * M]
                ELSE gO[c]]
    /\ UNCHANGED <<params, threads, phase, gOaccum, gLSEaccum, gKV, rng_state, ref, ranges>>

----------------------------------------------------------------------------
(* Grids and launches *)

\* grid(num_m_block, b, h)
DenseGrid(p) ==
    {<<m, b, h>> : m \in 0 .. ceil_div(p.seqlen_q, p.kBlockM) - 1,
                   b \in 0 .. p.b - 1, h \in 0 .. p.h - 1}

\* grid(num_m_block, Split ? num_splits : b, Split ? b * h : h)
SplitGrid(p) ==
    {<<m, y, z>> : m \in 0 .. ceil_div(p.seqlen_q, p.kBlockM) - 1,
                   y \in 0 .. (IF p.Split THEN p.num_splits ELSE p.b) - 1,
                   z \in 0 .. (IF p.Split THEN p.b * p.h ELSE p.h) - 1}

\* grid((b * h * seqlen_q + kBlockM - 1) / kBlockM)
CombineGrid(p) ==
    {<<x, 0, 0>> : x \in 0 .. ceil_div(p.b * p.h * p.seqlen_q, p.cBlockM) - 1}

GridDone == pending = {} /\ cur.pc \in {"idle", "done"}

OaccumCells(p) ==
    0 .. ((p.num_splits * p.b * p.h * p.seqlen_q
           + Max(p.kBlockM, p.cBlockM)) * Max(p.d_rounded, p.kHeadDim) - 1)

LseaccumCells(p) ==
    0 .. (p.num_splits * p.b * p.h * p.seqlen_q + Max(p.kBlockM, p.cBlockM) - 1)

\* Split and num_splits of a split launch of problem p whose grid has at most
\* MaxGrid blocks
SplitChoices(p) ==
    {[p EXCEPT !.Split = n > 0, !.num_splits = Max(n, 1)] :
        n \in {k \in 0 .. MaxSplits :
                 ceil_div(p.seqlen_q, p.kBlockM) * p.b * p.h * Max(k, 1) <= MaxGrid}}

KVCells ==
    {<<hk, a>> : hk \in 0 .. TruncDiv(params.h, params.h_h_k_ratio) - 1,
                 a \in 0 .. (IF params.block_table = <<>> THEN params.b * params.k_batch_stride
                             ELSE params.num_pages * params.page_block_size) - 1}

\* the same problem is run through the split kernel, on fresh output buffers
LaunchSplitKV ==
    /\ phase = "dense" /\ GridDone
    /\ phase' = "splitkv"
    /\ params' \in SplitChoices(params)
    /\ pending' = SplitGrid(params')
    /\ cur' = IdleBlock
    /\ ref' = [O |-> gO, LSE |-> gLSE]
    /\ gO' = [c \in DOMAIN gO |-> Unwritten]
    /\ gLSE' = [c \in DOMAIN gLSE |-> Unwritten]
    /\ gOaccum' = [c \in OaccumCells(params') |-> Unwritten]
    /\ gLSEaccum' = [c \in LseaccumCells(params') |-> Unwritten]
    /\ UNCHANGED <<gKV, rng_state, ranges, threads>>

\* the combine kernel follows the split kernel on the stream when Split
LaunchCombine ==
    /\ phase = "splitkv" /\ GridDone /\ params.Split
    /\ phase' = "combine"
    /\ pending' = CombineGrid(params)
    /\ cur' = IdleBlock
    /\ UNCHANGED <<params, threads, gO, gLSE, gOaccum, gLSEaccum, gKV, rng_state, ref, ranges>>

----------------------------------------------------------------------------
(* Launch parameters *)

MaskModes ==
    {[Is_causal |-> FALSE, Is_local |-> FALSE, window_size_left |-> -1, window_size_right |-> -1],
     [Is_causal |-> TRUE, Is_local |-> FALSE, window_size_left |-> -1, window_size_right |-> 0]}
    \cup {[Is_causal |-> FALSE, Is_local |-> TRUE, window_size_left |-> wl, window_size_right |-> wr] :
            wl \in 0 .. MaxWindow, wr \in 0 .. 1}

\* a launch of one sequence, one head, no split, no cache; the fields below
\* are overridden per launch
BaseParams ==
    [kBlockM |-> 2, kBlockN |-> 2, cBlockM |-> 4, kHeadDim |-> 1, d_rounded |-> 1,
     Is_causal |-> FALSE, Is_local |-> FALSE, window_size_left |-> -1, window_size_right |-> -1,
     Is_even_MN |-> FALSE, Is_dropout |-> FALSE, Split |-> FALSE, Append_KV |-> FALSE,
     num_splits |-> 1, b |-> 1, h |-> 1, h_h_k_ratio |-> 1,
     seqlen_q |-> 1, seqlen_k |-> 0, cu_seqlens_q |-> <<>>, cu_seqlens_k |-> <<>>,
     knew_ptr |-> FALSE, seqlen_knew |-> 0, rotary_dim |-> 0,
     Is_Q_in_regs |-> FALSE, Share_Q_K_smem |-> FALSE, kNWarps |-> 1, Log_max_splits |-> 0,
     block_table |-> <<>>, page_block_size |-> 1, num_pages |-> 0, k_batch_stride |-> 0]

WithShape(p, ts, mm, even) ==
    [p EXCEPT !.kBlockM = ts[1], !.kBlockN = ts[2], !.Is_even_MN = even,
              !.Is_causal = mm.Is_causal, !.Is_local = mm.Is_local,
              !.window_size_left = mm.window_size_left,
              !.window_size_right = mm.window_size_right]

\* Lengths a launch can have, up to maxq query rows and maxk key rows.
\* Is_even_MN is chosen only without cu_seqlens and with both lengths multiples
\* of the tile sizes.  Without cu_seqlens the actual lengths are the params'
\* lengths; with cu_seqlens (one sequence) params.seqlen_q is the maximum query
\* length and params.seqlen_k the maximum key length.
Lengths(ts, even, maxq, maxk) ==
    {[seqlen_q |-> sq, seqlen_k |-> sk, cu_seqlens_q |-> <<>>, cu_seqlens_k |-> <<>>] :
        sq \in {x \in 1 .. maxq : even => x % ts[1] = 0},
        sk \in {x \in 0 .. maxk : even => x % ts[2] = 0}}
    \cup
    (IF even THEN {}
     ELSE UNION {{[seqlen_q |-> sq, seqlen_k |-> maxk,
                   cu_seqlens_q |-> <<aq>>, cu_seqlens_k |-> <<ak>>] :
                    aq \in 0 .. sq, ak \in 0 .. maxk} : sq \in 1 .. maxq})

WithLengths(p, ln) ==
    [p EXCEPT !.seqlen_q = ln.seqlen_q, !.seqlen_k = ln.seqlen_k,
              !.cu_seqlens_q = ln.cu_seqlens_q, !.cu_seqlens_k = ln.cu_seqlens_k,
              !.k_batch_stride = ln.seqlen_k]

DenseLaunch(ts, mm, even, ln, drop) ==
    [WithLengths(WithShape(BaseParams, ts, mm, even), ln) EXCEPT !.Is_dropout = drop]

\* mask modes of the problems that are run through both paths: of the local
\* windows, the narrowest and the widest to the left
PipeMaskModes ==
    {mm \in MaskModes : mm.Is_local => mm.window_size_left \in {0, MaxWindow}}

\* lengths of the problems that are run through both paths
PipeLengths(ts, even) ==
    {ln \in Lengths(ts, even, MaxPipeQ, MaxPipeK) :
        ln.cu_seqlens_q # <<>> => ln.seqlen_q = MaxPipeQ}

\* (b, h) of a launch: several sequences or heads only with fixed lengths, and
\* at most MaxGrid blocks
BatchHeads(ts, ln) ==
    {bh \in (IF ln.cu_seqlens_q = <<>> THEN {<<1, 1>>, <<2, 1>>, <<1, 2>>} ELSE {<<1, 1>>}) :
        ceil_div(ln.seqlen_q, ts[1]) * bh[1] * bh[2] <= MaxGrid}

PipeLaunch(ts, mm, even, ln, bh) ==
    [WithLengths(WithShape(BaseParams, ts, mm, even), ln) EXCEPT !.b = bh[1], !.h = bh[2]]

InitGlobalMemory ==
    /\ gO = [c \in OCells |-> Unwritten]
    /\ gLSE = [c \in LseCells |-> Unwritten]
    /\ gOaccum = [c \in OaccumCells(params) |-> Unwritten]
    /\ gLSEaccum = [c \in LseaccumCells(params) |-> Unwritten]
    /\ gKV = [c \in KVCells |-> -1]
    /\ rng_state = "unwritten"
    /\ ref = [O |-> <<>>, LSE |-> <<>>]
    /\ ranges = {}

InitMemory ==
    /\ cur = IdleBlock
    /\ threads = <<>>
    /\ InitGlobalMemory

----------------------------------------------------------------------------
(* The dense kernel alone *)

InitDense ==
    /\ \E ts \in TileShapes, mm \in MaskModes, even \in BOOLEAN, drop \in BOOLEAN :
          \E ln \in Lengths(ts, even, MaxSeqQ, MaxSeqK) :
             params = DenseLaunch(ts, mm, even, ln, drop)
    /\ phase = "dense"
    /\ pending = DenseGrid(params)
    /\ InitMemory

NextDense ==
    \/ \E blk \in pending : DenseStart(blk)
    \/ DensePrologue
    \/ DenseMaskingStep
    \/ DenseNoMaskStep
    \/ DenseEpilogue

SpecDense == InitDense /\ [][NextDense]_vars

----------------------------------------------------------------------------
(* One problem run through the dense kernel, then through the split kernel *)
(* and the combine kernel                                                  *)

Init ==
    /\ \E ts \in TileShapes, mm \in PipeMaskModes, even \in BOOLEAN :
          \E ln \in PipeLengths(ts, even) :
             \E bh \in BatchHeads(ts, ln) : params = PipeLaunch(ts, mm, even, ln, bh)
    /\ phase = "dense"
    /\ pending = DenseGrid(params)
    /\ InitMemory

Next ==
    \/ \E blk \in pending : DenseStart(blk)
    \/ DensePrologue
    \/ DenseMaskingStep
    \/ DenseNoMaskStep
    \/ DenseEpilogue
    \/ LaunchSplitKV
    \/ \E blk \in pending : SplitStart(blk)
    \/ SplitPrologue
    \/ SplitMaskingStep
    \/ SplitNoMaskStep
    \/ SplitEpilogue
    \/ LaunchCombine
    \/ \E blk \in pending : CombineBlock(blk)

Spec == Init /\ [][Next]_vars

----------------------------------------------------------------------------
(* The split kernel on a KV cache: contiguous or paged, with or without    *)
(* new rows to append.  The query length is fixed, the cache length is     *)
(* given per sequence (cu_seqlens_k), params.seqlen_k is the capacity.     *)

\* block tables of n pages: the permutations of the physical pages 0 .. n-1
Perms(n) == {f \in [1 .. n -> 0 .. n - 1] : \A i, j \in 1 .. n : f[i] = f[j] => i = j}

\* (cache length, number of new rows) that fit the capacity
CacheFill(cap, append) ==
    IF append
    THEN UNION {{<<kc, kn>> : kn \in 1 .. Min(MaxKnew, cap - kc)} : kc \in 0 .. cap - 1}
    ELSE {<<kc, 0>> : kc \in 0 .. cap}

\* contiguous cache of MaxSeqK rows; paged cache of as many pages of P rows
\* as fit MaxSeqK rows.  A cache that is appended to is paged only with pages
\* that are a multiple of kBlockN, under the identity table or its reverse.
Storage(ts) ==
    {[block_table |-> <<>>, page_block_size |-> 1, num_pages |-> 0,
      seqlen_k |-> MaxSeqK, k_batch_stride |-> MaxSeqK, Append_KV |-> app] : app \in BOOLEAN}
    \cup
    UNION {{[block_table |-> <<bt>>, page_block_size |-> P, num_pages |-> MaxSeqK \div P,
             seqlen_k |-> (MaxSeqK \div P) * P, k_batch_stride |-> P, Append_KV |-> FALSE] :
               bt \in Perms(MaxSeqK \div P)} : P \in PageSizes}
    \cup
    UNION {{[block_table |-> <<bt>>, page_block_size |-> P, num_pages |-> MaxSeqK \div P,
             seqlen_k |-> (MaxSeqK \div P) * P, k_batch_stride |-> P, Append_KV |-> TRUE] :
               bt \in {f \in Perms(MaxSeqK \div P) :
                          \/ \A i \in DOMAIN f : f[i] = i - 1
                          \/ \A i \in DOMAIN f : f[i] = Len(f) - i}} :
           P \in {x \in PageSizes : x % ts[2] = 0}}

CacheLaunch(ts, mm, st, sq, n, fill) ==
    [WithShape(BaseParams, ts, mm, FALSE) EXCEPT
        !.seqlen_q = sq, !.Split = n > 1, !.num_splits = n,
        !.block_table = st.block_table, !.page_block_size = st.page_block_size,
        !.num_pages = st.num_pages, !.seqlen_k = st.seqlen_k,
        !.k_batch_stride = st.k_batch_stride,
        !.Append_KV = st.Append_KV, !.knew_ptr = st.Append_KV,
        !.cu_seqlens_k = <<fill[1]>>, !.seqlen_knew = fill[2]]

InitCache ==
    /\ \E ts \in TileShapes, mm \in MaskModes, sq \in 1 .. MaxCacheQ, n \in {1, MaxSplits} :
          \E st \in Storage(ts) :
             \E fill \in CacheFill(st.seqlen_k, st.Append_KV) :
                /\ ceil_div(sq, ts[1]) * n <= MaxGrid
                /\ params = CacheLaunch(ts, mm, st, sq, n, fill)
    /\ phase = "splitkv"
    /\ pending = SplitGrid(params)
    /\ InitMemory

NextCache ==
    \/ \E blk \in pending : SplitStart(blk)
    \/ SplitAppendStep
    \/ SplitAppendEnd
    \/ SplitPrologue
    \/ SplitMaskingStep
    \/ SplitNoMaskStep
    \/ SplitEpilogue

SpecCache == InitCache /\ [][NextCache]_vars


-----------------------------------------------------------------------------
(* The split kernel appending to the cache: grids of at most two blocks that
   are two query tiles, two splits or two query heads of one KV head *)

\* (h, h_h_k_ratio): query heads and query heads per KV head
AppendHeads == {<<1, 1>>, <<2, 2>>}

\* a cache that is appended to: contiguous, or paged with every page size
\* under every block table
AppendStorage ==
    {[block_table |-> <<>>, page_block_size |-> 1, num_pages |-> 0,
      seqlen_k |-> MaxSeqK, k_batch_stride |-> MaxSeqK, Append_KV |-> TRUE]}
    \cup
    UNION {{[block_table |-> <<bt>>, page_block_size |-> P, num_pages |-> MaxSeqK \div P,
             seqlen_k |-> (MaxSeqK \div P) * P, k_batch_stride |-> P, Append_KV |-> TRUE] :
               bt \in Perms(MaxSeqK \div P)} : P \in PageSizes}

InitAppend ==
    /\ \E ts \in TileShapes, mm \in MaskModes, sq \in {1, MaxPipeQ}, n \in {1, MaxSplits},
          hr \in AppendHeads :
          \E st \in AppendStorage :
             \E fill \in CacheFill(st.seqlen_k, TRUE) :
                /\ ceil_div(sq, ts[1]) * n * hr[1] <= 2
                /\ params = [CacheLaunch(ts, mm, st, sq, n, fill) EXCEPT
                                !.h = hr[1], !.h_h_k_ratio = hr[2]]
    /\ phase = "splitkv"
    /\ pending = SplitGrid(params)
    /\ InitMemory

SpecAppend == InitAppend /\ [][NextCache]_vars


----------------------------------------------------------------------------
(* The split kernel on a contiguous cache with rotary embedding of Q *)

\* params.rotary_dim of a launch
RotaryDims == {0, 2, 4}

InitRotary ==
    /\ \E ts \in TileShapes, mm \in MaskModes, sq \in 1 .. MaxPipeQ, rd \in RotaryDims :
          \E st \in {x \in Storage(ts) : x.block_table = <<>>} :
             \E fill \in CacheFill(st.seqlen_k, st.Append_KV) :
                params = [CacheLaunch(ts, mm, st, sq, 1, fill) EXCEPT !.rotary_dim = rd]
    /\ phase = "splitkv"
    /\ pending = SplitGrid(params)
    /\ InitMemory

SpecRotary == InitRotary /\ [][NextCache]_vars

----------------------------------------------------------------------------
(* The split kernel with Split and the combine kernel, over head dimensions *)

\* (kHeadDim, d_rounded) of a launch: the kernel's head dimension and the
\* row pitch of Oaccum, in elements
HeadDims == {<<1, 1>>, <<2, 2>>, <<1, 2>>, <<2, 1>>}

AccumLaunch(ts, mm, sq, bh, n, hd) ==
    [PipeLaunch(ts, mm, FALSE,
                [seqlen_q |-> sq, seqlen_k |-> MaxPipeK,
                 cu_seqlens_q |-> <<>>, cu_seqlens_k |-> <<>>], bh)
       EXCEPT !.Split = TRUE, !.num_splits = n, !.kHeadDim = hd[1], !.d_rounded = hd[2]]

\* the split kernel with Split, then the combine kernel
InitAccum ==
    /\ \E ts \in TileShapes, mm \in {m \in MaskModes : ~m.Is_local}, sq \in 1 .. MaxPipeQ,
          bh \in {<<1, 1>>, <<2, 1>>, <<1, 2>>}, n \in 1 .. MaxSplits, hd \in HeadDims :
             /\ ceil_div(sq, ts[1]) * bh[1] * bh[2] * n <= MaxGrid
             /\ params = AccumLaunch(ts, mm, sq, bh, n, hd)
    /\ phase = "splitkv"
    /\ pending = SplitGrid(params)
    /\ InitMemory

NextAccum ==
    \/ \E blk \in pending : SplitStart(blk)
    \/ SplitPrologue
    \/ SplitMaskingStep
    \/ SplitNoMaskStep
    \/ SplitEpilogue
    \/ LaunchCombine
    \/ \E blk \in pending : CombineBlock(blk)

SpecAccum == InitAccum /\ [][NextAccum]_vars

----------------------------------------------------------------------------
(* One block followed thread by thread: the order in which each thread     *)
(* issues its async copies, waits for them, meets the block-wide barriers  *)
(* and runs the MMAs that read the shared K and V tiles                    *)

MaxThreads == 2

Threads == 0 .. MaxThreads - 1

\* a thread's part of a shared-memory tile: the tile copied there and how far
\* the copy is: "empty"; "inflight", cp.async issued; "landed", the thread's
\* cp_async_wait has returned; "visible", a barrier has passed since
EmptyPart == [tile |-> 0, st |-> "empty"]

landed(part) == IF part.st = "inflight" THEN [part EXCEPT !.st = "landed"] ELSE part

visible(part) == IF part.st = "landed" THEN [part EXCEPT !.st = "visible"] ELSE part

ThreadStart(pc) ==
    [pc |-> pc, loop |-> "none", n_block |-> 0, masking_step |-> 0, split |-> 0,
     sQ |-> EmptyPart, sK |-> EmptyPart, sV |-> EmptyPart,
     readK |-> EmptyPart, readV |-> EmptyPart, qFrom |-> "none", effects |-> {}]

\* flash::cp_async_wait<0>
cp_async_wait_0(th) ==
    [th EXCEPT !.sQ = landed(@), !.sK = landed(@), !.sV = landed(@)]

BarrierPcs ==
    {"bar_append", "bar_q", "bar_q2", "bar_q3", "bar_k", "bar_v", "bar_o1", "bar_o",
     "c_bar1", "c_bar2"}

\* a loop counter that is not decremented
next_n_block_stuck(n_block) == n_block

\* --n_block, lines 335, 439, 446 and 969, 1044, 1050
next_n_block(n_block) == n_block - 1

\* lines 446 and 1050: the loop without masking is entered while
\* n_block >= n_block_min
enter_nomask(th) ==
    IF th.n_block >= cur.n_block_min
    THEN [th EXCEPT !.pc = "wait_k", !.loop = "nomask"]
    ELSE [th EXCEPT !.pc = "epilogue", !.loop = "none"]

\* lines 335, 437-446 and 969, 1043-1050: the end of an iteration
end_of_iteration(th) ==
    IF th.loop = "masking"
    THEN IF ~masking_break(th.n_block) /\ th.masking_step + 1 < n_masking_steps
         THEN [th EXCEPT !.pc = "wait_k", !.n_block = next_n_block(@),
                         !.masking_step = @ + 1]
         ELSE enter_nomask([th EXCEPT !.n_block = next_n_block(@), !.masking_step = @ + 1])
    ELSE enter_nomask([th EXCEPT !.n_block = next_n_block(@)])

\* the position after the QK MMA when the wait and the barrier that follow
\* it are left out
after_gemm_qk_unsynchronised == "copy_k"

\* lines 358-373 and 996-1007: the QK MMA is followed by cp_async_wait<0> and
\* __syncthreads
after_gemm_qk == "wait_v"

\* a first K copy that follows the register copy of Q without a barrier
after_load_q_unsynchronised == "copy_k0"

\* lines 289-292: the register copy of Q is followed by __syncthreads
after_load_q == "bar_q2"

\* lines 358 and 996: gemm<A_in_regs = Is_Q_in_regs> in the dense kernel,
\* gemm with Q from shared memory in the split kernel
reads_sQ_in_gemm == cur.kernel = "splitkv" \/ ~params.Is_Q_in_regs

\* an epilogue that never synchronises before the staging area is written
sync_before_staging_never == FALSE

\* lines 521 and 1125: __syncthreads before the staging area is written
sync_before_staging ==
    \/ cur.kernel = "dense" /\ params.Share_Q_K_smem
    \/ cur.kernel = "splitkv" /\ params.Split

\* lines 179-184, 512 and 724-726, 1109: the bytes [lo, hi) of the dynamic
\* shared memory that a tensor occupies; Element has 2 bytes, ElementO has 4
\* in the split kernel with Split and 2 otherwise
smem_region(tensor) ==
    LET size_sQ == params.kBlockM * params.kHeadDim * 2
        size_sK == params.kBlockN * params.kHeadDim * 2
        sK_lo == IF cur.kernel = "dense" /\ params.Share_Q_K_smem THEN 0 ELSE size_sQ
        size_sO == params.kBlockM * params.kHeadDim
                   * (IF cur.kernel = "splitkv" /\ params.Split THEN 4 ELSE 2)
    IN CASE tensor = "sQ" -> [lo |-> 0, hi |-> size_sQ]
         [] tensor = "sK" -> [lo |-> sK_lo, hi |-> sK_lo + size_sK]
         [] tensor = "sV" -> [lo |-> sK_lo + size_sK, hi |-> sK_lo + 2 * size_sK]
         [] tensor = "sO" -> [lo |-> 0, hi |-> size_sO]

\* line 64: tidx == 0
first_thread(t) == t = 0

\* lines 552 and 1158: the threads that hold column 0 of the accumulator
\* tile, one lane in four
holds_first_column(t) == t % 4 = 0

\* lines 58-137 and 606-662: rng_state, the query-length return, the
\* empty-range return
ThreadEntry(t) ==
    LET th == threads[t]
        rng == IF cur.kernel = "dense" /\ first_thread(t)
                  /\ save_rng_state(<<cur.m_block, cur.bidb, cur.bidh>>)
               THEN {"rng_state"} ELSE {}
        lse == IF holds_first_column(t) THEN {"LSE"} ELSE {}
        empty == IF cur.kernel = "dense"
                 THEN dense_exit_guard /\ cur.n_block_max <= cur.n_block_min
                 ELSE cur.n_block_min >= cur.n_block_max
    IN
    /\ th.pc = "start"
    /\ threads' = [threads EXCEPT ![t] =
          IF cur.m_block * params.kBlockM >= actual_seqlen_q(cur.bidb)
          THEN [th EXCEPT !.pc = "done", !.effects = rng]
          ELSE IF empty
          THEN [th EXCEPT !.pc = "done", !.effects = rng \cup lse]
          ELSE [th EXCEPT !.pc = IF cur.kernel = "splitkv" /\ params.Append_KV
                                 THEN "append" ELSE "copy_q",
                          !.effects = rng]]
    /\ UNCHANGED <<params, phase, pending, cur, gO, gLSE, gOaccum, gLSEaccum, gKV,
                   rng_state, ref, ranges>>

\* lines 845-894: the append loop, global memory only
ThreadAppend(t) ==
    /\ threads[t].pc = "append"
    /\ threads' = [threads EXCEPT ![t].pc = "bar_append"]
    /\ UNCHANGED <<params, phase, pending, cur, gO, gLSE, gOaccum, gLSEaccum, gKV,
                   rng_state, ref, ranges>>

\* lines 278-280 and 902-937: the Q copy
ThreadCopyQ(t) ==
    /\ threads[t].pc = "copy_q"
    /\ threads' = [threads EXCEPT ![t].sQ = [tile |-> cur.m_block, st |-> "inflight"],
                                  ![t].pc = IF cur.kernel = "dense" /\ params.Share_Q_K_smem
                                            THEN "wait_q" ELSE "copy_k0"]
    /\ UNCHANGED <<params, phase, pending, cur, gO, gLSE, gOaccum, gLSEaccum, gKV,
                   rng_state, ref, ranges>>

\* lines 287 and 305: cp_async_wait<0> with Share_Q_K_smem; cp_async_wait<1>,
\* which leaves the K copy in flight, with Is_Q_in_regs alone
ThreadWaitQ(t) ==
    LET th == threads[t]
    IN
    /\ th.pc \in {"wait_q", "wait_q1"}
    /\ threads' = [threads EXCEPT ![t] =
          IF th.pc = "wait_q" THEN [cp_async_wait_0(th) EXCEPT !.pc = "bar_q"]
          ELSE [th EXCEPT !.sQ = landed(@), !.pc = "bar_q3"]]
    /\ UNCHANGED <<params, phase, pending, cur, gO, gLSE, gOaccum, gLSEaccum, gKV,
                   rng_state, ref, ranges>>

\* lines 289-291 and 307-309: Q from shared memory to registers
ThreadLoadQ(t) ==
    LET th == threads[t]
    IN
    /\ th.pc \in {"load_q", "load_q3"}
    /\ threads' = [threads EXCEPT ![t] =
          IF th.pc = "load_q" THEN [th EXCEPT !.pc = after_load_q]
          ELSE [th EXCEPT !.pc = "wait_k", !.loop = "masking", !.masking_step = 0]]
    /\ UNCHANGED <<params, phase, pending, cur, gO, gLSE, gOaccum, gLSEaccum, gKV,
                   rng_state, ref, ranges>>

\* lines 295-300 and 939-943: the copy of the last K tile of the range
ThreadCopyK0(t) ==
    LET th == threads[t]
        n_block == cur.n_block_max - 1
    IN
    /\ th.pc = "copy_k0"
    /\ threads' = [threads EXCEPT ![t] =
          [th EXCEPT !.n_block = n_block,
                     !.sK = [tile |-> n_block, st |-> "inflight"],
                     !.pc = IF cur.kernel = "dense" /\ params.Is_Q_in_regs
                               /\ ~params.Share_Q_K_smem
                            THEN "wait_q1" ELSE "wait_k",
                     !.loop = "masking", !.masking_step = 0]]
    /\ UNCHANGED <<params, phase, pending, cur, gO, gLSE, gOaccum, gLSEaccum, gKV,
                   rng_state, ref, ranges>>

\* lines 339, 372, 450, 462 and 972, 1006, 1053, 1073: cp_async_wait<0>
ThreadWait(t) ==
    LET th == threads[t]
    IN
    /\ th.pc \in {"wait_k", "wait_v"}
    /\ threads' = [threads EXCEPT ![t] =
          [cp_async_wait_0(th) EXCEPT !.pc = IF th.pc = "wait_k" THEN "bar_k" ELSE "bar_v"]]
    /\ UNCHANGED <<params, phase, pending, cur, gO, gLSE, gOaccum, gLSEaccum, gKV,
                   rng_state, ref, ranges>>

\* lines 345-354, 454-455 and 976-994, 1056-1066: the copy of V tile n_block
ThreadCopyV(t) ==
    LET th == threads[t]
    IN
    /\ th.pc = "copy_v"
    /\ threads' = [threads EXCEPT ![t] =
          [th EXCEPT !.sV = [tile |-> th.n_block, st |-> "inflight"], !.pc = "gemm_qk"]]
    /\ UNCHANGED <<params, phase, pending, cur, gO, gLSE, gOaccum, gLSEaccum, gKV,
                   rng_state, ref, ranges>>

\* lines 358-364, 457-460 and 996-999, 1068-1071: the QK MMA reads sK
ThreadGemmQK(t) ==
    LET th == threads[t]
    IN
    /\ th.pc = "gemm_qk"
    /\ threads' = [threads EXCEPT ![t] =
          [th EXCEPT !.readK = [tile |-> th.n_block, st |-> "read"],
                     !.qFrom = IF reads_sQ_in_gemm THEN "smem" ELSE "regs",
                     !.pc = after_gemm_qk]]
    /\ UNCHANGED <<params, phase, pending, cur, gO, gLSE, gOaccum, gLSEaccum, gKV,
                   rng_state, ref, ranges>>

\* lines 376-383, 464-471 and 1011-1026, 1075-1090: the copy of the next K tile
ThreadCopyK(t) ==
    LET th == threads[t]
    IN
    /\ th.pc = "copy_k"
    /\ threads' = [threads EXCEPT ![t] =
          [th EXCEPT !.sK = IF th.n_block > cur.n_block_min
                            THEN [tile |-> th.n_block - 1, st |-> "inflight"] ELSE @,
                     !.pc = "gemm_pv"]]
    /\ UNCHANGED <<params, phase, pending, cur, gO, gLSE, gOaccum, gLSEaccum, gKV,
                   rng_state, ref, ranges>>

\* lines 431-441, 499 and 1040-1046, 1102: the PV MMA reads sV; loop control
ThreadGemmPV(t) ==
    LET th == threads[t]
    IN
    /\ th.pc = "gemm_pv"
    /\ threads' = [threads EXCEPT ![t] =
          end_of_iteration([th EXCEPT !.readV = [tile |-> th.n_block, st |-> "read"]])]
    /\ UNCHANGED <<params, phase, pending, cur, gO, gLSE, gOaccum, gLSEaccum, gKV,
                   rng_state, ref, ranges>>

\* lines 504-521 and 1106-1125: normalisation; a barrier before sO is written
\* with Share_Q_K_smem, resp. Split
ThreadEpilogue(t) ==
    /\ threads[t].pc = "epilogue"
    /\ threads' = [threads EXCEPT ![t].pc =
          IF sync_before_staging THEN "bar_o1" ELSE "write_sO"]
    /\ UNCHANGED <<params, phase, pending, cur, gO, gLSE, gOaccum, gLSEaccum, gKV,
                   rng_state, ref, ranges>>

\* lines 523-538 and 1127-1145: the output tile to shared memory
ThreadWriteO(t) ==
    /\ threads[t].pc = "write_sO"
    /\ threads' = [threads EXCEPT ![t].pc = "bar_o"]
    /\ UNCHANGED <<params, phase, pending, cur, gO, gLSE, gOaccum, gLSEaccum, gKV,
                   rng_state, ref, ranges>>

\* lines 541-573 and 1149-1178: LSE by the threads of column 0, O by all
ThreadStore(t) ==
    /\ threads[t].pc = "store"
    /\ threads' = [threads EXCEPT ![t].pc = "done",
                                  ![t].effects = @ \cup (IF holds_first_column(t)
                                                         THEN {"LSE"} ELSE {})]
    /\ UNCHANGED <<params, phase, pending, cur, gO, gLSE, gOaccum, gLSEaccum, gKV,
                   rng_state, ref, ranges>>

\* lines 1272-1278: LSEaccum to sLSE
ThreadCombineLoad(t) ==
    /\ threads[t].pc = "c_load"
    /\ threads' = [threads EXCEPT ![t].pc = "c_bar1"]
    /\ UNCHANGED <<params, phase, pending, cur, gO, gLSE, gOaccum, gLSEaccum, gKV,
                   rng_state, ref, ranges>>

\* lines 1282-1320: the reduction over the splits, the LSE store by one
\* thread per row, the scales to sLSE
ThreadCombineReduce(t) ==
    /\ threads[t].pc = "c_reduce"
    /\ threads' = [threads EXCEPT ![t].pc = "c_bar2",
                                  ![t].effects = @ \cup (IF t < params.cBlockM
                                                         THEN {"LSE"} ELSE {})]
    /\ UNCHANGED <<params, phase, pending, cur, gO, gLSE, gOaccum, gLSEaccum, gKV,
                   rng_state, ref, ranges>>

\* lines 1351-1369: one iteration of the loop over the splits
ThreadCombineAccum(t) ==
    LET th == threads[t]
    IN
    /\ th.pc = "c_accum"
    /\ threads' = [threads EXCEPT ![t] =
          [th EXCEPT !.split = @ + 1,
                     !.pc = IF th.split + 1 < params.num_splits THEN "c_accum" ELSE "c_store"]]
    /\ UNCHANGED <<params, phase, pending, cur, gO, gLSE, gOaccum, gLSEaccum, gKV,
                   rng_state, ref, ranges>>

\* lines 1371-1396: the O store
ThreadCombineStore(t) ==
    /\ threads[t].pc = "c_store"
    /\ threads' = [threads EXCEPT ![t].pc = "done"]
    /\ UNCHANGED <<params, phase, pending, cur, gO, gLSE, gOaccum, gLSEaccum, gKV,
                   rng_state, ref, ranges>>

\* the position after a barrier
after_barrier(th) ==
    CASE th.pc = "bar_append" -> "copy_q"
      [] th.pc = "bar_q" -> "load_q"
      [] th.pc = "bar_q2" -> "copy_k0"
      [] th.pc = "bar_q3" -> "load_q3"
      [] th.pc = "bar_k" -> "copy_v"
      [] th.pc = "bar_v" -> "copy_k"
      [] th.pc = "bar_o1" -> "write_sO"
      [] th.pc = "bar_o" -> "store"
      [] th.pc = "c_bar1" -> "c_reduce"
      [] th.pc = "c_bar2" -> IF 0 < params.num_splits THEN "c_accum" ELSE "c_store"

\* __syncthreads: no thread passes before every thread of the block has
\* arrived; the copies that have landed are visible to every thread after it
Barrier ==
    /\ threads # <<>>
    /\ \A t \in Threads : threads[t].pc \in BarrierPcs
    /\ threads' = [t \in Threads |->
          [threads[t] EXCEPT !.pc = after_barrier(threads[t]),
                             !.sQ = visible(@), !.sK = visible(@), !.sV = visible(@)]]
    /\ UNCHANGED <<params, phase, pending, cur, gO, gLSE, gOaccum, gLSEaccum, gKV,
                   rng_state, ref, ranges>>

\* Kernel_traits: (Is_Q_in_regs, Share_Q_K_smem); sharing implies registers
QTraits == {<<FALSE, FALSE>>, <<TRUE, FALSE>>, <<TRUE, TRUE>>}

\* mask modes of the blocks followed by thread
ThreadMaskModes ==
    {mm \in MaskModes : mm.Is_local => mm.window_size_left = 0 /\ mm.window_size_right = 0}

\* lengths of the launches followed by thread: no keys or the most keys
ThreadLengths(ts, even) ==
    {ln \in PipeLengths(ts, even) :
        IF ln.cu_seqlens_k = <<>> THEN ln.seqlen_k \in {0, MaxPipeK}
        ELSE ln.cu_seqlens_k[1] \in {0, MaxPipeK - 1}}

\* cache fills of the launches followed by thread: an empty cache or a full one
ThreadFill(cap, append) ==
    {fill \in CacheFill(cap, append) : fill[1] \in {0, cap - fill[2]}}

\* the block-uniform locals of block blk: functions of blockIdx and params
BlockOf(kernel, blk) ==
    IF kernel = "dense"
    THEN [IdleBlock EXCEPT !.kernel = kernel, !.pc = "threads", !.m_block = blk[1],
                           !.bidb = blk[2], !.bidh = blk[3],
                           !.n_block_min = n_block_min_dense(blk[1], blk[2]),
                           !.n_block_max = n_block_max_dense(blk[1], blk[2])]
    ELSE IF kernel = "splitkv"
    THEN [IdleBlock EXCEPT !.kernel = kernel, !.pc = "threads", !.m_block = blk[1],
                           !.bidb = split_bidb(blk), !.bidh = split_bidh(blk),
                           !.n_split_idx = split_idx(blk),
                           !.n_block_min = n_block_min_split(blk[1], split_bidb(blk),
                                                             split_idx(blk)),
                           !.n_block_max = n_block_max_split(blk[1], split_bidb(blk),
                                                             split_idx(blk))]
    ELSE [IdleBlock EXCEPT !.kernel = kernel, !.pc = "threads", !.m_block = blk[1]]

InitThreads ==
    /\ \/ /\ \E ts \in TileShapes, mm \in ThreadMaskModes, even \in BOOLEAN, drop \in BOOLEAN,
                tr \in QTraits :
                \E ln \in ThreadLengths(ts, even) :
                   /\ drop => ~tr[1]
                   /\ params = [DenseLaunch(ts, mm, even, ln, drop) EXCEPT
                                   !.Is_Q_in_regs = tr[1], !.Share_Q_K_smem = tr[2]]
          /\ phase = "dense"
          /\ \E blk \in DenseGrid(params) : cur = BlockOf("dense", blk)
          /\ threads = [t \in Threads |-> ThreadStart("start")]
       \/ /\ \E ts \in TileShapes, mm \in ThreadMaskModes, sq \in {1, MaxCacheQ},
                n \in {1, MaxSplits} :
                \E st \in {x \in Storage(ts) : x.block_table = <<>>} :
                   \E fill \in ThreadFill(st.seqlen_k, st.Append_KV) :
                      params = CacheLaunch(ts, mm, st, sq, n, fill)
          /\ phase = "splitkv"
          /\ \E blk \in SplitGrid(params) : cur = BlockOf("splitkv", blk)
          /\ threads = [t \in Threads |-> ThreadStart("start")]
       \/ /\ \E sq \in 1 .. MaxPipeQ, n \in 1 .. MaxSplits :
                params = AccumLaunch(<<2, 2>>, CHOOSE mm \in MaskModes :
                                                  ~mm.Is_causal /\ ~mm.Is_local,
                                     sq, <<1, 1>>, n, <<1, 1>>)
          /\ phase = "combine"
          /\ \E blk \in CombineGrid(params) : cur = BlockOf("combine", blk)
          /\ threads = [t \in Threads |-> ThreadStart("c_load")]
    /\ pending = {}
    /\ InitGlobalMemory

NextThreads ==
    \/ \E t \in Threads :
          \/ ThreadEntry(t)
          \/ ThreadAppend(t)
          \/ ThreadCopyQ(t)
          \/ ThreadWaitQ(t)
          \/ ThreadLoadQ(t)
          \/ ThreadCopyK0(t)
          \/ ThreadWait(t)
          \/ ThreadCopyV(t)
          \/ ThreadGemmQK(t)
          \/ ThreadCopyK(t)
          \/ ThreadGemmPV(t)
          \/ ThreadEpilogue(t)
          \/ ThreadWriteO(t)
          \/ ThreadStore(t)
          \/ ThreadCombineLoad(t)
          \/ ThreadCombineReduce(t)
          \/ ThreadCombineAccum(t)
          \/ ThreadCombineStore(t)
    \/ Barrier

SpecThreads == InitThreads /\ [][NextThreads]_vars

\* a warp that can run is eventually run, and a barrier that every thread has
\* reached is released
SpecThreadsFair == SpecThreads /\ WF_vars(NextThreads)

----------------------------------------------------------------------------
(* The coordinates that the dense kernel hands to the dropout generator,   *)
(* with the tile sizes in rows and columns of the attention matrix         *)

MaxDropTile == 2

\* (kBlockM, kBlockN, kNWarps): 4 or 8 warps of 16 rows each, kBlockN a
\* multiple of the 16 columns of the MMA tile
DropoutShapes ==
    {sh \in {64, 128} \X {16, 32, 48, 64, 128} \X {4, 8} : sh[1] % (16 * sh[3]) = 0}

\* the threads followed: the first and the last lane of every warp
DropoutThreads == {32 * w + lane : w \in 0 .. params.kNWarps - 1, lane \in {0, 31}}

\* one 16x32 block per tile
block_col_idx_per_tile(n_block) == n_block

\* lines 399 and 481
block_row_idx(m_block, tidx) == m_block * (params.kBlockM \div 16) + tidx \div 32

\* lines 400 and 482
block_col_idx(n_block) == n_block * (params.kBlockN \div 32)

\* lines 399-416 and 481-494: apply_dropout on tile n_block, then --n_block
ApplyDropout ==
    /\ cur.pc = "dropout" /\ cur.n_block >= cur.n_block_min
    /\ threads' = [tidx \in DropoutThreads |->
                     [n_block |-> cur.n_block,
                      block_row_idx |-> block_row_idx(cur.m_block, tidx),
                      block_col_idx |-> block_col_idx(cur.n_block)]]
    /\ cur' = [cur EXCEPT !.n_block = @ - 1]
    /\ UNCHANGED <<params, phase, pending, gO, gLSE, gOaccum, gLSEaccum, gKV,
                   rng_state, ref, ranges>>

InitDropout ==
    /\ \E sh \in DropoutShapes :
          params = [BaseParams EXCEPT !.kBlockM = sh[1], !.kBlockN = sh[2],
                                      !.kNWarps = sh[3], !.Is_dropout = TRUE,
                                      !.seqlen_q = (MaxDropTile + 1) * sh[1],
                                      !.seqlen_k = (MaxDropTile + 1) * sh[2]]
    /\ phase = "dense"
    /\ \E m_block \in 0 .. MaxDropTile, n_block_max \in 1 .. MaxDropTile + 1 :
          cur = [IdleBlock EXCEPT !.kernel = "dense", !.pc = "dropout", !.m_block = m_block,
                                  !.n_block_max = n_block_max, !.n_block = n_block_max - 1]
    /\ threads = <<>>
    /\ pending = {}
    /\ gO = <<>> /\ gLSE = <<>> /\ gOaccum = <<>> /\ gLSEaccum = <<>> /\ gKV = <<>>
    /\ rng_state = "saved"
    /\ ref = [O |-> <<>>, LSE |-> <<>>]
    /\ ranges = {}

SpecDropout == InitDropout /\ [][ApplyDropout]_vars

----------------------------------------------------------------------------
(* combine_attn_seqk_parallel with its real sizes: the LSE load into sLSE  *)
(* and the transposed read-back, for the threads of one block in lockstep  *)

\* line 1251
kNThreads == 128

\* lines 1250, 1245: the instantiations of the kernel template
CombineShapes == {4, 8, 16, 32} \X (0 .. 7)

\* line 1245
kMaxSplits == 2 ^ params.Log_max_splits

\* line 1266
kNLsePerThread == (kMaxSplits * params.cBlockM + kNThreads - 1) \div kNThreads

\* line 1269
kRowsPerLoadLSE == kNThreads \div params.cBlockM

\* line 1281
kRowsPerLoadTranspose == Min(kRowsPerLoadLSE, kMaxSplits)

\* lines 1272-1273: the sLSE entry thread tidx stores in iteration l
load_row(l, tidx) == l * kRowsPerLoadLSE + tidx \div params.cBlockM
load_col(tidx) == tidx % params.cBlockM

\* line 1274: the value loaded, -INFINITY outside the splits and the rows
load_lse(row, col) ==
    IF row < params.num_splits
       /\ col < params.b * params.h * params.seqlen_q - cur.m_block * params.cBlockM
    THEN "lse" ELSE "-inf"

\* a read-back that is not transposed
transpose_col_as_loaded(tidx) == tidx % params.cBlockM

\* lines 1291-1292: the sLSE entry thread tidx reads back in iteration l
transpose_row(l, tidx) == l * kRowsPerLoadTranspose + (tidx % kRowsPerLoadTranspose)
transpose_col(tidx) == tidx \div kRowsPerLoadTranspose

\* sLSE[row][col]: what the load pass stored there, an uninitialized value if
\* it stored nothing
sLSE_at(row, col) ==
    IF CopiesIn(<<row, col, "lse">>, cur.sLSE) > 0 THEN "lse"
    ELSE IF CopiesIn(<<row, col, "-inf">>, cur.sLSE) > 0 THEN "-inf"
    ELSE "uninitialized"

\* lines 1271-1278: iteration l of the load loop, all threads
CombineLoadLSE ==
    LET l == cur.l
        storing == {tidx \in 0 .. kNThreads - 1 : load_row(l, tidx) < kMaxSplits}
        stored(tidx) == <<load_row(l, tidx), load_col(tidx),
                          load_lse(load_row(l, tidx), load_col(tidx))>>
    IN
    /\ cur.kernel = "combine" /\ cur.pc = "lse_load"
    /\ l < kNLsePerThread
    /\ cur' = [cur EXCEPT !.sLSE = @ (+) BagOfAll(stored, SetToBag(storing)),
                          !.l = l + 1]
    /\ UNCHANGED <<params, threads, phase, pending, gO, gLSE, gOaccum, gLSEaccum, gKV,
                   rng_state, ref, ranges>>

\* line 1280: __syncthreads() after the load loop
CombineLoadDone ==
    /\ cur.kernel = "combine" /\ cur.pc = "lse_load"
    /\ cur.l >= kNLsePerThread
    /\ cur' = [cur EXCEPT !.pc = "lse_transpose", !.l = 0]
    /\ UNCHANGED <<params, threads, phase, pending, gO, gLSE, gOaccum, gLSEaccum, gKV,
                   rng_state, ref, ranges>>

\* lines 1290-1295: iteration l of the read-back loop, all threads;
\* lse_accum(l) of each thread with the sLSE entry it is taken from, and the
\* sLSE entries read
CombineTransposeLSE ==
    LET l == cur.l
        slot(tidx) ==
            LET row == transpose_row(l, tidx)
                col == transpose_col(tidx)
                in_sLSE == row < kMaxSplits /\ col < params.cBlockM
            IN [row |-> row, col |-> col, in_sLSE |-> in_sLSE,
                lse |-> IF in_sLSE THEN sLSE_at(row, col) ELSE "-inf"]
        reading == {tidx \in 0 .. kNThreads - 1 : slot(tidx).in_sLSE}
        entry(tidx) == <<slot(tidx).row, slot(tidx).col>>
    IN
    /\ cur.kernel = "combine" /\ cur.pc = "lse_transpose"
    /\ l < kNLsePerThread
    /\ threads' = [tidx \in 0 .. kNThreads - 1 |-> Append(threads[tidx], slot(tidx))]
    /\ cur' = [cur EXCEPT !.l = l + 1,
                          !.sLSE_reads = @ (+) BagOfAll(entry, SetToBag(reading)),
                          !.pc = IF l + 1 < kNLsePerThread THEN "lse_transpose"
                                 ELSE "lse_reduce"]
    /\ UNCHANGED <<params, phase, pending, gO, gLSE, gOaccum, gLSEaccum, gKV,
                   rng_state, ref, ranges>>

InitCombineLSE ==
    /\ \E sh \in CombineShapes :
          \E ns \in {1, 2 ^ sh[2] - 1, 2 ^ sh[2]} \ {0}, rows \in {1, sh[1] - 1, sh[1]},
             bidx \in 0 .. 1 :
             /\ params = [BaseParams EXCEPT !.cBlockM = sh[1], !.Log_max_splits = sh[2],
                                            !.Split = TRUE, !.num_splits = ns,
                                            !.seqlen_q = bidx * sh[1] + rows]
             /\ cur = [IdleBlock EXCEPT !.kernel = "combine", !.pc = "lse_load",
                                        !.m_block = bidx, !.l = 0,
                                        !.sLSE = EmptyBag, !.sLSE_reads = EmptyBag]
    /\ phase = "combine"
    /\ threads = [tidx \in 0 .. kNThreads - 1 |-> <<>>]
    /\ pending = {}
    /\ gO = <<>> /\ gLSE = <<>> /\ gOaccum = <<>> /\ gLSEaccum = <<>> /\ gKV = <<>>
    /\ rng_state = "unwritten"
    /\ ref = [O |-> <<>>, LSE |-> <<>>]
    /\ ranges = {}

NextCombineLSE ==
    \/ CombineLoadLSE
    \/ CombineLoadDone
    \/ CombineTransposeLSE

SpecCombineLSE == InitCombineLSE /\ [][NextCombineLSE]_vars
----------------------------------------------------------------------------
(* Either kernel launched alone: the dense kernel without dropout, or the   *)
(* split kernel on a contiguous cache                                      *)

InitKernels ==
    \/ InitDense /\ ~params.Is_dropout
    \/ InitCache /\ params.block_table = <<>>

NextKernels == NextDense \/ NextCache

SpecKernels == InitKernels /\ [][NextKernels]_vars

----------------------------------------------------------------------------
(* Properties *)

\* the block at hand has passed the query-length return and has its tile range
HasRange(kernel) == cur.kernel = kernel /\ cur.pc # "idle" /\ cur.exit # "seqlen_q"

\* the block at hand has returned
Finished(kernel) == HasRange(kernel) /\ cur.pc = "done"

\* the tile indices lo, ..., hi - 1
TileSet(lo, hi) == {n \in -1 .. MaxSeqK + 1 : lo <= n /\ n < hi}

\* rows of the block's tile that are rows of the query
QueryRows ==
    {r \in 0 .. params.kBlockM - 1 :
        cur.m_block * params.kBlockM + r < actual_seqlen_q(cur.bidb)}

(* C1 *)

SplitParts(d) ==
    {s \in ranges : s[1] = "splitkv" /\ s[2] = d[2] /\ s[3] = d[3] /\ s[4] = d[4]}

\* C1: when the split grid has run, the tile ranges of the num_splits blocks of
\* one (m_block, batch, head) are pairwise disjoint and their union is the
\* tile range of the dense block of the same (m_block, batch, head).
C1_SplitRangesPartition ==
    (phase = "splitkv" /\ GridDone) =>
        \A d \in ranges : d[1] = "dense" =>
            /\ Cardinality(SplitParts(d)) = params.num_splits
            /\ \A s, t \in SplitParts(d) :
                  s # t => TileSet(s[6], s[7]) \cap TileSet(t[6], t[7]) = {}
            /\ UNION {TileSet(s[6], s[7]) : s \in SplitParts(d)} = TileSet(d[6], d[7])

\* two splits of one dense range that both have tiles
C1_TwoSplitsWithTiles ==
    /\ phase = "splitkv" /\ GridDone /\ params.num_splits = 2
    /\ \E d \in ranges :
          /\ d[1] = "dense"
          /\ \A s \in SplitParts(d) : s[6] < s[7]
          /\ Cardinality(SplitParts(d)) = 2
          /\ d[7] - d[6] >= 2

(* C2 *)

\* the split path has produced its final O and LSE
SplitPathDone == GridDone /\ ((phase = "splitkv" /\ ~params.Split) \/ phase = "combine")

\* C2: for every num_splits, mask mode and length, the O and LSE rows of the
\* query that the split path (split kernel, then combine) leaves are those the
\* dense kernel left for the same problem.
C2_SplitPathEqualsDense ==
    SplitPathDone =>
        \A c \in OCells :
            c[3] < actual_seqlen_q(c[1]) =>
                /\ gO[c] = ref.O[c]
                /\ gLSE[lse_index(c[1], c[2], c[3])] = ref.LSE[lse_index(c[1], c[2], c[3])]

\* the dense kernel entered its loops with an empty tile range
DenseRanEmptyRange ==
    params.Is_even_MN /\ ~params.Is_causal /\ ~params.Is_local /\ params.seqlen_k = 0

\* the two paths agree on every problem but the one of C5
C2_EqualOutsideEmptyRange == ~DenseRanEmptyRange => C2_SplitPathEqualsDense

(* C3 *)

\* C3: in both kernels the i-th tile visited is tile n_block_max - i, through
\* the masking loop, its early break and the loop without masking; a block
\* with a non-empty range that reaches the epilogue has visited exactly
\* n_block_max - n_block_min tiles, so every tile of the range exactly once in
\* strictly decreasing order.
C3_TilesOnceDecreasing ==
    (HasRange("dense") \/ HasRange("splitkv")) =>
        /\ \A i \in 1 .. Len(cur.tiles) : cur.tiles[i].n_block = cur.n_block_max - i
        /\ \A i \in 1 .. Len(cur.tiles) - 1 :
              cur.tiles[i].loop = "nomask" => cur.tiles[i + 1].loop = "nomask"
        /\ (cur.exit = "epilogue" /\ cur.n_block_min < cur.n_block_max) =>
              Len(cur.tiles) = cur.n_block_max - cur.n_block_min

\* a split-kernel block with more than one masking step that went through both loops
C3_BothLoopsVisited ==
    /\ Finished("splitkv") /\ cur.exit = "epilogue"
    /\ n_masking_steps > 1
    /\ Len(cur.tiles) >= 3
    /\ cur.tiles[2].loop = "masking"
    /\ cur.tiles[Len(cur.tiles)].loop = "nomask"

(* C4 *)

\* the numerator of the causal/local clamp of n_block_max
clamp_numerator ==
    (cur.m_block + 1) * params.kBlockM + actual_seqlen_k(cur.bidb)
    - actual_seqlen_q(cur.bidb) + params.window_size_right

stated_n_block_max ==
    IF params.Is_causal \/ params.Is_local
    THEN Min(CeilDiv(actual_seqlen_k(cur.bidb), params.kBlockN),
             CeilDiv(clamp_numerator, params.kBlockN))
    ELSE CeilDiv(actual_seqlen_k(cur.bidb), params.kBlockN)

stated_n_block_min ==
    IF params.Is_local
    THEN Max(0, FloorDiv(cur.m_block * params.kBlockM + actual_seqlen_k(cur.bidb)
                         - actual_seqlen_q(cur.bidb) - params.window_size_left,
                         params.kBlockN))
    ELSE 0

\* C4 as stated: the dense kernel's n_block_max and n_block_min are the stated
\* formulas with mathematical ceiling and floor, for all inputs.
C4_RangeAsStated ==
    HasRange("dense") =>
        /\ cur.n_block_max = stated_n_block_max
        /\ cur.n_block_min = stated_n_block_min

\* the clamp's quotient is negative and not whole, so that truncation rounds it
\* up past the ceiling
clamp_truncated_up ==
    /\ params.Is_causal \/ params.Is_local
    /\ clamp_numerator <= -params.kBlockN
    /\ clamp_numerator % params.kBlockN # 1

\* C4: n_block_min is the stated formula for all inputs; n_block_max is the
\* stated formula unless the clamp numerator is -kBlockN or less and not 1
\* modulo kBlockN, where it is the stated value plus one; there the range is
\* empty under the code's bounds as under the stated ones.
C4_RangeTruncated ==
    HasRange("dense") =>
        /\ cur.n_block_min = stated_n_block_min
        /\ ~clamp_truncated_up => cur.n_block_max = stated_n_block_max
        /\ clamp_truncated_up =>
              /\ cur.n_block_max = stated_n_block_max + 1
              /\ cur.n_block_max <= 0
              /\ cur.n_block_max <= cur.n_block_min
              /\ cur.exit = "empty"

\* a causal or local block whose clamp numerator is -kBlockN or less
C4_NegativeClamp ==
    /\ Finished("dense") /\ cur.exit = "empty"
    /\ params.Is_causal \/ params.Is_local
    /\ clamp_truncated_up
    /\ cur.n_block_max # stated_n_block_max

(* C5 *)

\* C5: a dense block with n_block_max <= n_block_min, whatever Is_causal,
\* Is_local and Is_even_MN, returns having loaded no K or V tile, with zeros in
\* its O rows and +inf in its LSE rows.
C5_EmptyRangeExit ==
    (Finished("dense") /\ cur.n_block_max <= cur.n_block_min) =>
        /\ cur.exit = "empty"
        /\ cur.kLoads = <<>> /\ cur.vLoads = <<>>
        /\ \A r \in QueryRows :
              /\ gO[<<cur.bidb, cur.bidh, cur.m_block * params.kBlockM + r>>] = Zero
              /\ gLSE[lse_index(cur.bidb, cur.bidh, cur.m_block * params.kBlockM + r)] = PInf

\* the early exit is taken whenever it is compiled in
C5_EmptyRangeExitGuarded == dense_exit_guard => C5_EmptyRangeExit

(* C6 *)

\* C6: a split-kernel block with n_block_min >= n_block_max returns having
\* loaded no K or V tile and appended nothing, with zeros in its rows of Oaccum
\* and -inf in its rows of LSEaccum when Split, zeros in its rows of O and +inf
\* in its rows of LSE otherwise.
C6_SplitEmptyRangeExit ==
    (Finished("splitkv") /\ cur.n_block_min >= cur.n_block_max) =>
        /\ cur.exit = "empty"
        /\ cur.kLoads = <<>> /\ cur.vLoads = <<>> /\ cur.appended = <<>>
        /\ \A r \in QueryRows :
              IF params.Split
              THEN /\ gOaccum[row_offset_oaccum(cur.m_block, cur.bidb, cur.bidh,
                                                cur.n_split_idx) + r * params.kHeadDim] = Zero
                   /\ gLSEaccum[row_offset_lseaccum(cur.m_block, cur.bidb, cur.bidh,
                                                    cur.n_split_idx) + r] = Zero
              ELSE /\ gO[<<cur.bidb, cur.bidh, cur.m_block * params.kBlockM + r>>] = Zero
                   /\ gLSE[lse_index(cur.bidb, cur.bidh,
                                     cur.m_block * params.kBlockM + r)] = PInf

\* a split with an empty range in a launch that has new rows to append
C6_EmptySplitOfAppend ==
    /\ Finished("splitkv") /\ cur.exit = "empty"
    /\ params.Split /\ params.Append_KV
    /\ cur.n_split_idx = 1
    /\ QueryRows # {}

(* C7 *)

\* C7: every LSEaccum and Oaccum element that a combine block reads has been
\* written by the split grid.
C7_CombineReadsWritten ==
    cur.kernel = "combine" =>
        \A rd \in cur.reads :
            /\ rd.buf = "LSEaccum" => gLSEaccum[rd.addr] # Unwritten
            /\ rd.buf = "Oaccum" => gOaccum[rd.addr] # Unwritten

\* the reads are of written elements when every sequence has seqlen_q rows
C7_WrittenWithFixedLength == params.cu_seqlens_q = <<>> => C7_CombineReadsWritten

(* C8 *)

AllSplitsEmpty(bidx, col) ==
    \A s \in 0 .. params.num_splits - 1 : gLSEaccum[combine_lse_addr(bidx, s, col)] = Zero

\* C8: a row whose partial LSEs are -inf in every split leaves the combine
\* kernel with LSE = +inf, a scale of 0 for every split, and O = 0.
C8_AllInfRow ==
    (cur.kernel = "combine" /\ cur.pc = "done") =>
        \A col \in combine_rows(cur.m_block) :
            AllSplitsEmpty(cur.m_block, col) =>
                /\ gLSE[cur.m_block * params.cBlockM + col] = PInf
                /\ \A s \in 0 .. params.num_splits - 1 : cur.sLSE[col][s] = Zero
                /\ gO[combine_o_cell(cur.m_block * params.cBlockM + col)] = Zero

\* a combine block over two splits with such a row
C8_RowWithNoKeys ==
    /\ cur.kernel = "combine" /\ cur.pc = "done"
    /\ params.num_splits = 2
    /\ \E col \in combine_rows(cur.m_block) : AllSplitsEmpty(cur.m_block, col)

(* C9 *)

\* the address of logical row l of sequence bidb as the block table gives it
paged_address(bidb, l) ==
    block_table_at(bidb, l \div params.page_block_size) * params.k_batch_stride
    + (l % params.page_block_size)

\* the K and V tile copies of the block at hand
TileLoads ==
    {cur.kLoads[i] : i \in DOMAIN cur.kLoads} \cup {cur.vLoads[i] : i \in DOMAIN cur.vLoads}

\* C9 as stated: for every page size and block table, every logical row that
\* the paged split kernel reads is read from page block_table[b][r div page]
\* at in-page row r mod page.
C9_PagedRowsAsStated ==
    (HasRange("splitkv") /\ params.block_table # <<>>) =>
        \A L \in TileLoads : \A r \in L.rows :
            L.ptr + r = paged_address(cur.bidb, L.n_block * params.kBlockN + r)

\* C9: every row read that lies in the page of the first row of its tile is
\* read from page block_table[b][r div page] at in-page row r mod page; that is
\* every row read when page_block_size is a multiple of kBlockN.
C9_PagedRowsWithinPage ==
    (HasRange("splitkv") /\ params.block_table # <<>>) =>
        \A L \in TileLoads :
            /\ L.ptr = paged_address(cur.bidb, L.n_block * params.kBlockN)
            /\ \A r \in L.rows :
                  (\/ params.page_block_size % params.kBlockN = 0
                   \/ block_table_offset(L.n_block) + r < params.page_block_size)
                  => L.ptr + r = paged_address(cur.bidb, L.n_block * params.kBlockN + r)

\* a block that read several tiles through a block table that permutes the
\* pages, with pages that are a multiple of kBlockN
C9_PermutedPagesRead ==
    /\ Finished("splitkv") /\ cur.exit = "epilogue"
    /\ params.block_table # <<>>
    /\ params.page_block_size % params.kBlockN = 0
    /\ params.block_table[1][1] # 0
    /\ Len(cur.kLoads) >= 2 /\ Len(cur.vLoads) >= 2

(* C10 *)

\* the address of logical row l of the cache of sequence bidb
cache_address(bidb, l) ==
    IF params.block_table = <<>> THEN bidb * params.k_batch_stride + l
    ELSE paged_address(bidb, l)

\* C10: with Append_KV, when the grid has run every cache row p in
\* [seqlen_k_cache, seqlen_k_cache + seqlen_knew) holds row p - seqlen_k_cache
\* of Knew/Vnew, in every mask mode.
C10_AllNewRowsAppended ==
    (phase = "splitkv" /\ GridDone /\ params.Append_KV) =>
        \A bidb \in 0 .. params.b - 1, hk \in 0 .. params.h - 1 :
            \A l \in seqlen_k_cache(bidb) .. actual_seqlen_k(bidb) - 1 :
                gKV[<<hk, cache_address(bidb, l)>>] = l - seqlen_k_cache(bidb)

\* all new rows are in the cache when the attention is not local
C10_AppendedUnlessLocal == ~params.Is_local => C10_AllNewRowsAppended

(* C11 *)

\* the cache rows that the block at hand has written in its append loop
AppendWrites == UNION {cur.appended[i].writes : i \in DOMAIN cur.appended}

\* C11: with Append_KV, every row at a position >= seqlen_k_cache that a block
\* copies from the cache in its compute phase is at an address to which the
\* same block has written that row of Knew/Vnew in its append loop, and the
\* block copies no K or V tile before its append loop has ended.
C11_LoadsOwnAppends ==
    (HasRange("splitkv") /\ params.Append_KV) =>
        /\ cur.pc = "append" => cur.kLoads = <<>> /\ cur.vLoads = <<>>
        /\ \A L \in TileLoads : \A r \in L.rows :
              L.n_block * params.kBlockN + r >= seqlen_k_cache(cur.bidb) =>
                 \E w \in AppendWrites :
                    /\ w.addr = L.ptr + r
                    /\ w.head = TruncDiv(cur.bidh, params.h_h_k_ratio)
                    /\ w.src = L.n_block * params.kBlockN + r - seqlen_k_cache(cur.bidb)

\* one of two splits has appended rows and read them back, next to old rows
C11_ReadsAppendedRows ==
    /\ Finished("splitkv") /\ cur.exit = "epilogue"
    /\ params.Append_KV /\ params.Split
    /\ seqlen_k_cache(cur.bidb) > 0
    /\ \E L \in TileLoads : \E r \in L.rows :
          L.n_block * params.kBlockN + r >= seqlen_k_cache(cur.bidb)
    /\ \E L \in TileLoads : \E r \in L.rows :
          L.n_block * params.kBlockN + r < seqlen_k_cache(cur.bidb)

(* C12 *)

\* C12: in both attention kernels every tile copied has an index >= 0, every
\* row copied is a row of [0, actual_seqlen_k), only tile n_block_max - 1 can
\* reach past actual_seqlen_k, and of that tile the rows below
\* actual_seqlen_k - n_block * kBlockN are the ones copied.
C12_LoadsInsideSequence ==
    (HasRange("dense") \/ HasRange("splitkv")) =>
        \A L \in TileLoads :
            /\ L.n_block >= 0
            /\ \A r \in L.rows :
                  /\ 0 <= L.n_block * params.kBlockN + r
                  /\ L.n_block * params.kBlockN + r < actual_seqlen_k(cur.bidb)
            /\ L.n_block # cur.n_block_max - 1 =>
                  (L.n_block + 1) * params.kBlockN <= actual_seqlen_k(cur.bidb)
            /\ L.rows = {r \in 0 .. params.kBlockN - 1 :
                            L.n_block * params.kBlockN + r < actual_seqlen_k(cur.bidb)}

\* every copy is inside the sequence unless the dense kernel ran an empty range
C12_InsideUnlessEmptyRange == ~DenseRanEmptyRange => C12_LoadsInsideSequence

(* C13 *)

\* flat row index idx of an output names a query row of its batch element:
\* idx = (b * h + bidh) * seqlen_q + i with i < actual_seqlen_q(b)
QueryRowIndex(idx) ==
    /\ idx >= 0 /\ idx < total_rows
    /\ idx % params.seqlen_q < actual_seqlen_q(idx \div (params.h * params.seqlen_q))

\* C13: while the dense or the split kernel runs, no element of O, LSE, Oaccum
\* or LSEaccum at a query row >= actual_seqlen_q of its batch element has been
\* written, after the epilogue and after the early exit alike.
C13_NoWriteBeyondQuery ==
    phase \in {"dense", "splitkv"} =>
        /\ \A c \in DOMAIN gO : c[3] >= actual_seqlen_q(c[1]) => gO[c] = Unwritten
        /\ \A c \in DOMAIN gLSE : ~QueryRowIndex(c) => gLSE[c] = Unwritten
        /\ \A c \in DOMAIN gLSEaccum :
              ~QueryRowIndex(c % total_rows) \/ c >= params.num_splits * total_rows
                 => gLSEaccum[c] = Unwritten
        /\ \A c \in DOMAIN gOaccum :
              \/ ~QueryRowIndex((c \div params.d_rounded) % total_rows)
              \/ c \div params.d_rounded >= params.num_splits * total_rows
                 => gOaccum[c] = Unwritten

\* a split block has written a tile of which only some rows are query rows
C13_PartialTileWritten ==
    /\ Finished("splitkv") /\ params.Split /\ cur.exit = "epilogue"
    /\ params.cu_seqlens_q # <<>>
    /\ QueryRows # {} /\ QueryRows # 0 .. params.kBlockM - 1
    /\ \E c \in DOMAIN gOaccum : gOaccum[c] # Unwritten

(* C14 *)

\* the combine kernel has left O alone at rows that are not below seqlen_q
CombineOInRange ==
    phase = "combine" => \A c \in DOMAIN gO : c[3] >= params.seqlen_q => gO[c] = Unwritten

\* C14: the combine kernel writes the final LSE and the final O only at flat
\* row indices below b * h * seqlen_q, in its last block too.
C14_CombineWritesInRange ==
    /\ CombineOInRange
    /\ phase = "combine" => \A c \in DOMAIN gLSE : c >= total_rows => gLSE[c] = Unwritten

(* C15 *)

\* the stated place of element k of row i of (split s, batch b, head h)
stated_oaccum_offset(s, b, h, i, k) ==
    ((((s * params.b + b) * params.h + h) * params.seqlen_q + i) * params.d_rounded) + k

\* the addresses that the block of grid coordinates blk stores to
StoreAddrs(blk) ==
    {st.addr : st \in oaccum_stores([m_block |-> blk[1], bidb |-> split_bidb(blk),
                                     bidh |-> split_bidh(blk), n_split_idx |-> split_idx(blk)])}

\* the split block at hand stores every element at its stated offset, and none
\* where another block of the grid stores
StoresAsStated ==
    cur.kernel = "splitkv" =>
        /\ \A st \in cur.stores :
              st.addr = stated_oaccum_offset(cur.n_split_idx, cur.bidb, cur.bidh,
                                             cur.m_block * params.kBlockM + st.row, st.k)
        /\ \A blk \in SplitGrid(params) :
              (blk[1] # cur.m_block \/ split_bidb(blk) # cur.bidb \/ split_bidh(blk) # cur.bidh
               \/ split_idx(blk) # cur.n_split_idx)
                 => StoreAddrs(blk) \cap {st.addr : st \in cur.stores} = {}

\* the combine block at hand reads, for every split s and every row idx of
\* its tile below b * h * seqlen_q, the elements at the stated offsets
ReadsAsStated ==
    cur.kernel = "combine" =>
        {rd.addr : rd \in {x \in cur.reads : x.buf = "Oaccum"}}
        = {(s * total_rows + cur.m_block * params.cBlockM + r) * params.d_rounded + k :
             s \in 0 .. params.num_splits - 1, r \in combine_rows(cur.m_block),
             k \in 0 .. params.kHeadDim - 1}

\* C15 as stated: for every d_rounded and kHeadDim the split kernel stores
\* element (s, b, h, i, k) at ((((s*B + b)*Hq + h)*Sq + i)*D_rounded + k), rows
\* do not overlap, and the combine kernel reads split s of row idx there.
C15_LayoutAsStated == StoresAsStated /\ ReadsAsStated

\* C15: when d_rounded = kHeadDim the split kernel stores element
\* (s, b, h, i, k) at ((((s*B + b)*Hq + h)*Sq + i)*D_rounded + k), rows do not
\* overlap, and the combine kernel reads split s of row idx there.
C15_LayoutWithEqualPitch == params.d_rounded = params.kHeadDim => C15_LayoutAsStated

\* a combine block over two splits of rows of two elements
C15_TwoElementRowsCombined ==
    /\ cur.kernel = "combine" /\ cur.pc = "done"
    /\ params.kHeadDim = 2 /\ params.d_rounded = 2
    /\ params.num_splits = 2 /\ params.b * params.h = 2
    /\ Cardinality(cur.reads) >= 8

(* C16 *)

\* C16: with dropout, once block (0, 0, 0) of the dense kernel has run its
\* first step, whichever way it left (query-length return, empty-range return
\* or the loops), rng_state holds the seed and the offset; no other block
\* writes it.
C16_RngStateSaved ==
    (phase = "dense" /\ params.Is_dropout) =>
        (rng_state = "saved" <=> <<0, 0, 0>> \notin pending)

\* block (0, 0, 0) took the query-length return of a dropout launch
C16_FirstBlockReturnedEarly ==
    /\ params.Is_dropout /\ cur.kernel = "dense"
    /\ cur.m_block = 0 /\ cur.bidb = 0 /\ cur.bidh = 0
    /\ cur.exit = "seqlen_q" /\ rng_state = "saved"

(* C17 *)

\* C17: with Append_KV and rotary_dim > 0, row r of the tile of a split block
\* that reached the Q copy, which is query row i = m_block * kBlockM + r, is
\* rotated with table row seqlen_k_cache + i when the kernel is causal or
\* local and with table row seqlen_k_cache when it is neither; otherwise
\* every row is copied unrotated.
C17_QueryRotaryRow ==
    (cur.kernel = "splitkv" /\ (cur.pc \in {"masking", "nomask"} \/ cur.exit = "epilogue")) =>
        /\ DOMAIN cur.qLoad # {}
        /\ \A r \in DOMAIN cur.qLoad :
              IF params.Append_KV /\ params.rotary_dim > 0
              THEN cur.qLoad[r] =
                      (seqlen_k_cache(cur.bidb)
                       + (IF params.Is_causal \/ params.Is_local
                          THEN cur.m_block * params.kBlockM + r ELSE 0))
                      * (params.rotary_dim \div 2)
              ELSE cur.qLoad[r] = -1

\* the second tile of a non-causal launch is rotated, after an append to a
\* cache that was not empty
C17_BroadcastRowRotated ==
    /\ cur.kernel = "splitkv" /\ cur.exit = "epilogue"
    /\ params.Append_KV /\ params.rotary_dim = 4
    /\ ~params.Is_causal /\ ~params.Is_local
    /\ cur.m_block = 1 /\ 0 \in DOMAIN cur.qLoad
    /\ seqlen_k_cache(cur.bidb) > 0

(* C18 *)

AllThreadsDone == threads # <<>> /\ \A t \in Threads : threads[t].pc = "done"

\* the threads that wait at a barrier wait at the same barrier of the same
\* iteration, and no thread has returned while another waits at a barrier
BarriersAgree ==
    threads # <<>> =>
        \A t, u \in Threads :
            threads[t].pc \in BarrierPcs =>
                /\ threads[u].pc # "done"
                /\ threads[u].pc \in BarrierPcs =>
                      /\ threads[u].pc = threads[t].pc
                      /\ threads[u].loop = threads[t].loop
                      /\ threads[u].n_block = threads[t].n_block
                      /\ threads[u].masking_step = threads[t].masking_step

\* C18: every thread of a block of the dense, split and combine kernels
\* reaches the end of the kernel, and on the way the threads meet the same
\* barriers in the same order: none waits at a barrier that another thread
\* never reaches.
C18_BlocksTerminate == []BarriersAgree /\ <>AllThreadsDone

\* a block whose threads went around the loop without masking and finished
C18_LoopedAndDone ==
    /\ AllThreadsDone
    /\ cur.kernel = "dense" /\ cur.n_block_max - cur.n_block_min >= 2
    /\ \A t \in Threads : threads[t].readV = [tile |-> cur.n_block_min, st |-> "read"]

(* C20 *)

\* a thread about to run the QK MMA on tile n_block finds every thread's part
\* of sK holding that tile, landed and followed by a barrier
QKReadsReady ==
    \A u, t \in Threads :
        threads[u].pc = "gemm_qk" =>
            threads[t].sK = [tile |-> threads[u].n_block, st |-> "visible"]

\* a thread about to run the PV MMA on tile n_block finds every thread's part
\* of sV holding that tile, landed and followed by a barrier
PVReadsReady ==
    \A u, t \in Threads :
        threads[u].pc = "gemm_pv" =>
            threads[t].sV = [tile |-> threads[u].n_block, st |-> "visible"]

\* a thread about to issue the copy of the next K tile overwrites a tile whose
\* QK MMA every thread has finished
KCopyAfterReads ==
    \A t, u \in Threads :
        (threads[t].pc = "copy_k" /\ threads[t].n_block > cur.n_block_min) =>
            threads[u].readK = [tile |-> threads[t].sK.tile, st |-> "read"]

\* a thread about to issue the copy of a V tile overwrites nothing, or a tile
\* whose PV MMA every thread has finished
VCopyAfterReads ==
    \A t, u \in Threads :
        (threads[t].pc = "copy_v" /\ threads[t].sV.st # "empty") =>
            threads[u].readV = [tile |-> threads[t].sV.tile, st |-> "read"]

\* C20: in every iteration of both loops of the dense and the split kernel,
\* a QK MMA reads sK, and a PV MMA reads sV, only once every thread's copy of
\* that tile has completed and a barrier has passed, and no thread issues the
\* next copy into sK or sV before every thread has finished the MMA that
\* reads what is there.
C20_SharedTilesRaceFree ==
    threads # <<>> =>
        QKReadsReady /\ PVReadsReady /\ KCopyAfterReads /\ VCopyAfterReads

\* in the loop without masking one thread is about to issue the copy of the
\* next K tile while another has the PV MMA of this iteration still to run
C20_CopyWhileOtherWaits ==
    /\ threads # <<>>
    /\ \E t, u \in Threads :
          /\ threads[t].pc = "copy_k" /\ threads[t].loop = "nomask"
          /\ threads[t].n_block > cur.n_block_min
          /\ threads[u].pc = "gemm_pv"

(* C19 *)

\* the coordinates handed to the generator are those of the 16x32 block at
\* the absolute position of the warp's first 16 rows and of the tile's first
\* column
CoordinatesAsStated ==
    \A tidx \in DOMAIN threads :
        /\ threads[tidx].block_row_idx
              = (cur.m_block * params.kBlockM + (tidx \div 32) * 16) \div 16
        /\ threads[tidx].block_col_idx = (threads[tidx].n_block * params.kBlockN) \div 32

\* C19 as stated: for every kBlockM, kBlockN and warp count, block_row_idx is
\* (absolute first row of the warp's 16-row group) / 16 and block_col_idx is
\* (n_block * kBlockN) / 32.
C19_CoordinatesAsStated == (cur.pc = "dropout" /\ threads # <<>>) => CoordinatesAsStated

\* C19: for kBlockN a multiple of 32, and every kBlockM and warp count,
\* block_row_idx is (absolute first row of the warp's 16-row group) / 16 and
\* block_col_idx is (n_block * kBlockN) / 32.
C19_CoordinatesOfWholeBlocks ==
    (cur.pc = "dropout" /\ threads # <<>> /\ params.kBlockN % 32 = 0) => CoordinatesAsStated

\* the third tile of the second row of tiles, eight warps
C19_ThirdTileEightWarps ==
    /\ cur.pc = "dropout" /\ threads # <<>>
    /\ params.kNWarps = 8 /\ params.kBlockN = 64 /\ cur.m_block = 1
    /\ threads[255].n_block = 2 /\ threads[255].block_col_idx = 4
    /\ threads[255].block_row_idx = 15

(* C21 *)

\* C21: in the dense kernel with Share_Q_K_smem, a thread about to issue the
\* first K copy into the slot shared by sQ and sK finds that every thread has
\* waited for its Q copy, passed a barrier and copied Q to registers, and no
\* MMA takes Q from shared memory afterwards.
C21_SharedSlotFreeOfQ ==
    (threads # <<>> /\ cur.kernel = "dense" /\ params.Share_Q_K_smem) =>
        \A t, u \in Threads :
            /\ threads[t].pc = "copy_k0" =>
                  /\ threads[u].pc \notin {"start", "copy_q", "wait_q", "bar_q", "load_q"}
                  /\ threads[u].sQ.st = "visible"
            /\ threads[t].qFrom # "smem"

\* with Share_Q_K_smem one thread is about to issue the first K copy when
\* another has issued its own
C21_FirstCopyIntoSharedSlot ==
    /\ threads # <<>> /\ cur.kernel = "dense" /\ params.Share_Q_K_smem
    /\ \E t, u \in Threads :
          /\ threads[t].pc = "copy_k0"
          /\ threads[u].pc = "wait_k" /\ threads[u].sK.st = "inflight"

(* C22 *)

overlap(a, b) == a.lo < b.hi /\ b.lo < a.hi

\* the MMAs a thread at position th.pc has still to run read tensor
will_read(th, tensor) ==
    LET before_qk == th.pc \in {"append", "bar_append", "copy_q", "wait_q", "bar_q", "load_q",
                                "bar_q2", "copy_k0", "wait_q1", "bar_q3", "load_q3",
                                "wait_k", "bar_k", "copy_v", "gemm_qk"}
        before_pv == th.pc \in {"wait_v", "bar_v", "copy_k", "gemm_pv"}
        again == before_pv /\ end_of_iteration(th).pc = "wait_k"
    IN CASE tensor = "sQ" -> reads_sQ_in_gemm /\ (before_qk \/ again)
         [] tensor = "sK" -> before_qk \/ again
         [] tensor = "sV" -> before_qk \/ before_pv

\* C22: a thread about to read the output staging area finds every thread's
\* part written, and a thread about to write the staging area finds no
\* thread with an MMA still to run that reads a Q, K or V tile in the bytes
\* that the staging area overlaps.
C22_StagingRaceFree ==
    (threads # <<>> /\ cur.kernel \in {"dense", "splitkv"}) =>
        \A t, u \in Threads :
            /\ threads[t].pc = "store" => threads[u].pc \in {"store", "done"}
            /\ threads[t].pc = "write_sO" =>
                  \A tensor \in {"sQ", "sK", "sV"} :
                      overlap(smem_region("sO"), smem_region(tensor))
                         => ~will_read(threads[u], tensor)

\* a Split block whose fp32 staging area reaches into sV: one thread is about
\* to write it, the other has written its part
C22_WideStagingWritten ==
    /\ threads # <<>> /\ cur.kernel = "splitkv" /\ params.Split
    /\ overlap(smem_region("sO"), smem_region("sV"))
    /\ \E t, u \in Threads : threads[t].pc = "write_sO" /\ threads[u].pc = "bar_o"

(* C23 *)

\* tile n_block of the block at hand holds a column >= actual_seqlen_k or, in
\* causal mode, a position (row, col) of the query tile with
\* col > row + actual_seqlen_k - actual_seqlen_q
HoldsMaskedPosition(n_block) ==
    LET cols == n_block * params.kBlockN .. (n_block + 1) * params.kBlockN - 1
        rows == cur.m_block * params.kBlockM .. (cur.m_block + 1) * params.kBlockM - 1
    IN \/ \E col \in cols : col >= actual_seqlen_k(cur.bidb)
       \/ /\ params.Is_causal
          /\ \E row \in rows, col \in cols :
                col > row + actual_seqlen_k(cur.bidb) - actual_seqlen_q(cur.bidb)

\* C23: no tile processed by the loop without masking holds a column
\* >= actual_seqlen_k or, in causal mode, a position above the diagonal of the
\* query tile; every tile that does is among the first n_masking_steps tiles
\* processed.
C23_MaskedTilesInMaskingLoop ==
    cur.kernel \in {"dense", "splitkv"} =>
        \A k \in DOMAIN cur.tiles :
            HoldsMaskedPosition(cur.tiles[k].n_block) =>
                cur.tiles[k].loop = "masking" /\ k <= n_masking_steps

\* a causal block that left two tiles to the masking loop, the second of
\* them with a masked position, and one to the loop without masking
C23_TwoMaskedTilesThenPlain ==
    /\ cur.kernel \in {"dense", "splitkv"} /\ params.Is_causal
    /\ Len(cur.tiles) >= 3
    /\ cur.tiles[2].loop = "masking" /\ HoldsMaskedPosition(cur.tiles[2].n_block)
    /\ cur.tiles[3].loop = "nomask"

(* C24 *)

\* C24: with a block table, the pointer of every K tile copy and every V tile
\* copy of the split kernel is the address of the first row of the tile copied:
\* page block_table[b][n * kBlockN div page_block_size], in-page row
\* n * kBlockN mod page_block_size.
C24_PagedTilePointers ==
    (cur.kernel = "splitkv" /\ params.block_table # <<>>) =>
        /\ \A i \in DOMAIN cur.kLoads :
              cur.kLoads[i].ptr
                 = block_table_at(cur.bidb, (cur.kLoads[i].n_block * params.kBlockN)
                                               \div params.page_block_size)
                      * params.k_batch_stride
                   + ((cur.kLoads[i].n_block * params.kBlockN) % params.page_block_size)
        /\ \A i \in DOMAIN cur.vLoads :
              cur.vLoads[i].ptr
                 = block_table_at(cur.bidb, (cur.vLoads[i].n_block * params.kBlockN)
                                               \div params.page_block_size)
                      * params.k_batch_stride
                   + ((cur.vLoads[i].n_block * params.kBlockN) % params.page_block_size)

\* a block that appended rows to a cache whose block table reverses the pages,
\* then copied K and V tiles in the masking loop and in the loop without masking
C24_AppendedThenCopiedBothLoops ==
    /\ cur.kernel = "splitkv" /\ cur.exit = "epilogue"
    /\ params.block_table # <<>> /\ params.block_table[1][1] # 0
    /\ Len(cur.appended) >= 1
    /\ Len(cur.kLoads) >= 3 /\ Len(cur.vLoads) >= 3
    /\ \E k \in DOMAIN cur.tiles : cur.tiles[k].loop = "nomask"

(* C25 *)

\* C25: of the tiles a block of either attention kernel processes, the first
\* one, tile n_block_max - 1, and no other is passed to softmax_rescale_o with
\* Is_first = true; every later tile, of the masking loop or of the loop
\* without masking, is passed with Is_first = false.
C25_OnlyFirstTileInitialises ==
    cur.kernel \in {"dense", "splitkv"} =>
        \A k \in DOMAIN cur.tiles :
            /\ cur.tiles[k].Is_first <=> k = 1
            /\ k = 1 => cur.tiles[k].n_block = cur.n_block_max - 1

\* a block that processed two tiles in the masking loop and a third in the
\* loop without masking
C25_LaterTilesInBothLoops ==
    /\ cur.kernel \in {"dense", "splitkv"}
    /\ Len(cur.tiles) >= 3
    /\ cur.tiles[1].Is_first
    /\ cur.tiles[2].loop = "masking" /\ ~cur.tiles[2].Is_first
    /\ cur.tiles[3].loop = "nomask" /\ ~cur.tiles[3].Is_first

(* C26 *)

\* the cache elements the next iteration of the append loop writes
NextAppendCells ==
    LET n_block == cur.n_block_copy
        max_MN == actual_seqlen_k(cur.bidb) - n_block * params.kBlockN
        min_MN == seqlen_k_cache(cur.bidb) - n_block * params.kBlockN
    IN {<<TruncDiv(cur.bidh, params.h_h_k_ratio), cur.tKgK + r>> :
          r \in {x \in 0 .. params.kBlockN - 1 : x >= min_MN /\ x < max_MN}}

\* C26: a cache element that a block has written is never given another
\* value by a later write, whatever the order in which the blocks run: blocks
\* that write the same element write the same value.
C26_AppendWritesAgree ==
    [][\A c \in DOMAIN gKV : gKV[c] # -1 => gKV'[c] = gKV[c]]_vars

\* C26 for a cache that is contiguous or whose pages are a multiple of kBlockN
C26_AppendWritesAgreeWholePages ==
    [][(params.block_table = <<>> \/ params.page_block_size % params.kBlockN = 0)
          => \A c \in DOMAIN gKV : gKV[c] # -1 => gKV'[c] = gKV[c]]_vars

\* a block of the second query head, which shares its KV head with the first,
\* about to write an element of a paged cache that an earlier block has written
C26_SecondHeadRewrites ==
    /\ cur.kernel = "splitkv" /\ cur.pc = "append" /\ cur.appended = <<>>
    /\ cur.bidh = 1 /\ params.h_h_k_ratio = 2
    /\ params.block_table # <<>> /\ params.page_block_size % params.kBlockN = 0
    /\ cur.n_block_copy >= n_block_copy_min
    /\ \E c \in NextAppendCells : c \in DOMAIN gKV /\ gKV[c] # -1

(* C27 *)

\* the lane that Allreduce exchanges with at distance offset, a power of two
shfl_xor(tidx, offset) ==
    IF (tidx \div offset) % 2 = 0 THEN tidx + offset ELSE tidx - offset

\* C27: for every kBlockM in {4, 8, 16, 32} and every kMaxSplits = 1, 2, ...,
\* 128, with 128 threads: once the load loop is over each sLSE entry (split <
\* kMaxSplits, row < kBlockM) has been stored exactly once; once the
\* read-back is over each entry is held by exactly one thread, the lanes
\* that one Allreduce over kRowsPerLoadTranspose lanes combines are in one
\* warp and hold values of one output row, and every slot of lse_accum
\* outside split < num_splits or outside the valid rows holds -infinity.
C27_LseTransposeExact ==
    cur.kernel = "combine" =>
        /\ (cur.pc = "lse_transpose" /\ cur.l = 0) =>
              \A row \in 0 .. kMaxSplits - 1, col \in 0 .. params.cBlockM - 1 :
                  CopiesIn(<<row, col, "lse">>, cur.sLSE)
                     + CopiesIn(<<row, col, "-inf">>, cur.sLSE) = 1
        /\ cur.pc = "lse_reduce" =>
              /\ \A row \in 0 .. kMaxSplits - 1, col \in 0 .. params.cBlockM - 1 :
                    CopiesIn(<<row, col>>, cur.sLSE_reads) = 1
              /\ \A tidx \in DOMAIN threads :
                    /\ Len(threads[tidx]) = kNLsePerThread
                    /\ \A k \in 0 .. 6 :
                          2 ^ k < kRowsPerLoadTranspose =>
                             LET other == shfl_xor(tidx, 2 ^ k)
                             IN /\ other \in DOMAIN threads
                                /\ other \div 32 = tidx \div 32
                                /\ \A l \in DOMAIN threads[tidx] :
                                      threads[other][l].col = threads[tidx][l].col
                    /\ \A l \in DOMAIN threads[tidx] :
                          (\/ threads[tidx][l].row >= params.num_splits
                           \/ threads[tidx][l].col >= params.b * params.h * params.seqlen_q
                                                         - cur.m_block * params.cBlockM)
                             => threads[tidx][l].lse = "-inf"

\* kBlockM = 4 and kMaxSplits = 2 with one split: after the read-back thread 0
\* holds an LSE, thread 1 a slot of a split that did not run, thread 127 a
\* slot outside sLSE
C27_NarrowTileFewSplits ==
    /\ cur.kernel = "combine" /\ cur.pc = "lse_reduce"
    /\ params.cBlockM = 4 /\ params.Log_max_splits = 1 /\ params.num_splits = 1
    /\ threads[0][1].lse = "lse"
    /\ threads[1][1].in_sLSE /\ threads[1][1].lse = "-inf"
    /\ ~threads[127][1].in_sLSE /\ threads[127][1].lse = "-inf"

(* C28 *)

\* key columns j < actual_seqlen_k that the mask of the launch leaves in place
\* for row r of the query tile at hand
ContributingKeys(r) ==
    {j \in 0 .. actual_seqlen_k(cur.bidb) - 1 :
        ~masked(params.Is_causal, FALSE, cur.bidb, cur.m_block * params.kBlockM + r, j)}

\* C28: in the dense kernel, for every row i < actual_seqlen_q of the query
\* tile and every key column j < actual_seqlen_k that the mask mode leaves
\* unmasked for row i, tile j div kBlockN lies in [n_block_min, n_block_max);
\* a block that has returned has processed that tile and has not taken the
\* early exit.
C28_ContributingTilesInRange ==
    HasRange("dense") =>
        \A r \in QueryRows : \A j \in ContributingKeys(r) :
            /\ cur.n_block_min <= j \div params.kBlockN
            /\ j \div params.kBlockN < cur.n_block_max
            /\ cur.pc = "done" =>
                  /\ cur.exit = "epilogue"
                  /\ \E k \in DOMAIN cur.tiles : cur.tiles[k].n_block = j \div params.kBlockN

\* a local block whose range is clamped on both sides: its first tile and
\* its last tile of the sequence hold no contributing key, a tile in between
\* does and was processed
C28_WindowClampedBothSides ==
    /\ Finished("dense") /\ cur.exit = "epilogue" /\ params.Is_local
    /\ cur.n_block_min > 0
    /\ cur.n_block_max < ceil_div(actual_seqlen_k(cur.bidb), params.kBlockN)
    /\ \E r \in QueryRows : ContributingKeys(r) # {}

(* C29 *)

\* the position in the sequence of the cache row at row address a, -1 when the
\* address is not a row of the sequence's cache
position_of(bidb, a) ==
    IF params.block_table = <<>>
    THEN IF a >= bidb * params.k_batch_stride /\ a < bidb * params.k_batch_stride + params.seqlen_k
         THEN a - bidb * params.k_batch_stride ELSE -1
    ELSE LET P == params.page_block_size
             bt == params.block_table[bidb + 1]
             hit == {i \in 1 .. Len(bt) : a >= 0 /\ bt[i] = a \div P}
         IN IF hit = {} THEN -1 ELSE ((CHOOSE i \in hit : TRUE) - 1) * P + (a % P)

\* a position that holds a new row
IsNewPosition(bidb, pos) ==
    pos >= seqlen_k_cache(bidb) /\ pos < seqlen_k_cache(bidb) + params.seqlen_knew

\* every row the block at hand has written and every row of the cache that
\* has been written is at the position of a new row, and past the append
\* loop the K and V tile pointers are those from before it
AppendFrame ==
    /\ \A w \in AppendWrites : IsNewPosition(cur.bidb, position_of(cur.bidb, w.addr))
    /\ \A c \in DOMAIN gKV :
          gKV[c] # -1 => \A bidb \in 0 .. params.b - 1 :
                            IsNewPosition(bidb, position_of(bidb, c[2]))
    /\ cur.pc \in {"prologue", "masking"} /\ cur.kLoads = <<>> =>
          /\ cur.tKgK = cur.tKgK_data /\ cur.tVgV = cur.tVgV_data
          /\ cur.tKgK = row_offset_k(cur.bidb, cur.n_block_max - 1)
          /\ cur.tVgV = row_offset_k(cur.bidb, cur.n_block_max - 1)

\* C29 as stated: for every cache, the append loop writes no cache row at a
\* position < seqlen_k_cache or >= seqlen_k_cache + seqlen_knew, and leaves
\* the K and V tile pointers as they were before it.
C29_AppendFrameAsStated ==
    (cur.kernel = "splitkv" /\ params.Append_KV) => AppendFrame

\* C29: for a contiguous cache and for a paged cache whose pages are a
\* multiple of kBlockN, the append loop writes no cache row at a position
\* < seqlen_k_cache or >= seqlen_k_cache + seqlen_knew, and leaves the K and V
\* tile pointers as they were before it.
C29_AppendFrameWholePages ==
    (/\ cur.kernel = "splitkv" /\ params.Append_KV
     /\ params.block_table = <<>> \/ params.page_block_size % params.kBlockN = 0)
        => AppendFrame

\* a block past an append loop of two iterations that moved the pointers
\* through a block table, on a cache with old rows and with room left in the
\* last tile written
C29_TwoTilesAppendedPaged ==
    /\ cur.kernel = "splitkv" /\ cur.pc = "prologue"
    /\ params.block_table # <<>> /\ params.page_block_size % params.kBlockN = 0
    /\ Len(cur.appended) >= 2
    /\ seqlen_k_cache(cur.bidb) % params.kBlockN # 0
    /\ actual_seqlen_k(cur.bidb) % params.kBlockN # 0
    /\ cur.tKgK = cur.tKgK_data

(* C30 *)

\* the last call of softmax_rescale_o by the block at hand had Check_inf = false
RescaledWithoutCheck ==
    /\ cur.kernel \in {"dense", "splitkv"}
    /\ cur.tiles # <<>>
    /\ ~cur.tiles[Len(cur.tiles)].Check_inf

\* row r of the query tile has a key column of tile n_block that the mask of
\* the launch leaves in place
HasUnmaskedColumn(r, n_block) ==
    \E j \in ContributingKeys(r) : j \div params.kBlockN = n_block

\* C30: after a call of softmax_rescale_o with Check_inf = false, in either
\* attention kernel, every row i < actual_seqlen_q of the query tile has an
\* unmasked column in the tile processed and its running max is finite (not
\* -infinity, not NaN).
C30_UncheckedRescaleFinite ==
    RescaledWithoutCheck =>
        \A r \in QueryRows :
            /\ HasUnmaskedColumn(r, cur.tiles[Len(cur.tiles)].n_block)
            /\ IsFin(cur.softmax[r].max) /\ cur.softmax[r].max # Zero

\* C30 for the blocks whose tile range is not empty
C30_UncheckedRescaleFiniteInRange ==
    (RescaledWithoutCheck /\ cur.n_block_min < cur.n_block_max) =>
        \A r \in QueryRows :
            /\ HasUnmaskedColumn(r, cur.tiles[Len(cur.tiles)].n_block)
            /\ IsFin(cur.softmax[r].max) /\ cur.softmax[r].max # Zero
====
